---- MODULE Spec2Model ----
(***************************************************************************)
(* A model of two pieces of prisma-engines:                                *)
(*                                                                         *)
(*  - enrich (sql-introspection-connector/src/re_introspection.rs): the    *)
(*    reconciliation of a freshly introspected datamodel with the          *)
(*    previous one.  The function is a straight line of phases; each phase *)
(*    first collects a list of changes by reading both trees and then      *)
(*    applies the list to the new tree.  One action per phase, in source   *)
(*    order, sequenced by pc.                                              *)
(*                                                                         *)
(*  - all_changes / defaults_match (sql-migration-connector/src/           *)
(*    sql_schema_differ/column.rs): the column differ, a pure function of  *)
(*    a column pair and the flavour's capabilities.                        *)
(*                                                                         *)
(* Option<String> is a string, NONE standing for None.  Option<struct> is  *)
(* a sequence of length at most one.  Vec<T> is a sequence.                *)
(***************************************************************************)
EXTENDS Integers, Sequences, FiniteSets, TLC

VARIABLES
    old_data_model,   \* enrich: the previous datamodel (read only)
    new_data_model,   \* enrich: the introspected datamodel, mutated in place
    ctx,              \* enrich: [named_constraints, mysql]
    pc,               \* enrich: the phase about to run
    locals,           \* enrich: the change lists the phases collect
    warnings,         \* enrich: the returned Vec<Warning>
    call,             \* enrich: 1 for the first call, 2 for the call on its own output
    input_new,        \* enrich: new_data_model as passed to the current call
    cols,             \* differ: Pair<ColumnWalker>, [previous, next]
    flavour,          \* differ: the SqlFlavour's capabilities
    column_changes    \* differ: the ColumnChanges all_changes returned

vars == <<old_data_model, new_data_model, ctx, pc, locals, warnings, call,
          input_new, cols, flavour, column_changes>>

enrich_vars == <<old_data_model, new_data_model, ctx, pc, locals, warnings,
                 call, input_new>>

differ_vars == <<cols, flavour, column_changes>>

NONE == "~"

(***************************************************************************)
(* Sequence helpers.                                                       *)
(***************************************************************************)
Range(s) == {s[i] : i \in DOMAIN s}

\* Iterator::position: the first index whose element satisfies P, 0 for None.
Position(s, P(_)) ==
    IF \E i \in DOMAIN s : P(s[i])
    THEN CHOOSE i \in DOMAIN s : P(s[i]) /\ \A j \in 1..(i - 1) : ~P(s[j])
    ELSE 0

\* Iterator::flat_map over a sequence of sequences
RECURSIVE Flatten(_)
Flatten(ss) == IF ss = <<>> THEN <<>> ELSE Head(ss) \o Flatten(Tail(ss))

NoDuplicates(s) == \A i, j \in DOMAIN s : s[i] = s[j] => i = j

(***************************************************************************)
(* The dml types, as far as enrich reads and writes them.                  *)
(***************************************************************************)
RelationInfo(to, fields, references, name) ==
    [to |-> to, fields |-> fields, references |-> references, name |-> name]

NoRelationInfo == RelationInfo(NONE, <<>>, <<>>, NONE)

\* FieldType: [tag, name]; name is the enum's name for tag "Enum".
TypeString == [tag |-> "String", name |-> NONE]
TypeInt == [tag |-> "Int", name |-> NONE]
TypeDateTime == [tag |-> "DateTime", name |-> NONE]
TypeEnum(e) == [tag |-> "Enum", name |-> e]

\* Option<DefaultValue>: [kind, value]
NoDefault == [kind |-> "None", value |-> NONE]
DefaultEnum(v) == [kind |-> "Single(Enum)", value |-> v]
DefaultCuid == [kind |-> "Expression", value |-> "cuid"]
DefaultUuid == [kind |-> "Expression", value |-> "uuid"]
DefaultNow == [kind |-> "Expression", value |-> "now"]

ScalarField(name, database_name, field_type, default_value) ==
    [kind |-> "scalar", name |-> name, database_name |-> database_name,
     field_type |-> field_type, default_value |-> default_value,
     is_ignored |-> FALSE, is_updated_at |-> FALSE, documentation |-> NONE,
     is_list |-> FALSE, relation_info |-> NoRelationInfo]

RelationField(name, is_list, relation_info) ==
    [kind |-> "relation", name |-> name, database_name |-> NONE,
     field_type |-> [tag |-> "Relation", name |-> NONE],
     default_value |-> NoDefault,
     is_ignored |-> FALSE, is_updated_at |-> FALSE, documentation |-> NONE,
     is_list |-> is_list, relation_info |-> relation_info]

IndexDefinition(name, db_name, fields) ==
    [name |-> name, db_name |-> db_name, fields |-> fields]

PrimaryKeyDefinition(name, db_name, fields) ==
    [name |-> name, db_name |-> db_name, fields |-> fields]

Model(name, database_name, fields, indices, primary_key) ==
    [name |-> name, database_name |-> database_name, fields |-> fields,
     indices |-> indices, primary_key |-> primary_key,
     is_ignored |-> FALSE, documentation |-> NONE]

EnumValue(name, database_name) ==
    [name |-> name, database_name |-> database_name, documentation |-> NONE]

Enum(name, database_name, values) ==
    [name |-> name, database_name |-> database_name, values |-> values,
     documentation |-> NONE]

Datamodel(models, enums) == [models |-> models, enums |-> enums]

\* database_name.as_ref().unwrap_or(&name)
FinalDatabaseName(x) == IF x.database_name = NONE THEN x.name ELSE x.database_name

\* impl PartialEq for RelationInfo: the relation name is not compared
RelationInfoEq(a, b) ==
    /\ a.to = b.to
    /\ a.fields = b.fields
    /\ a.references = b.references

IsScalar(f) == f.kind = "scalar"
IsRelation(f) == f.kind = "relation"

(***************************************************************************)
(* Lookups of the dml crate that enrich calls.  A tree being mutated is    *)
(* carried as st = [dm, ok]: ok turns FALSE when a find_*_mut or an unwrap *)
(* finds nothing (a panic), and every later step leaves st alone.          *)
(***************************************************************************)
Running(dm) == [dm |-> dm, ok |-> TRUE]

Panic(st) == [st EXCEPT !.ok = FALSE]

\* Datamodel::find_model: the first model of that name (0: None)
FindModel(dm, name) == Position(dm.models, LAMBDA m : m.name = name)

\* Datamodel::find_model_db_name: the first model of that database name
FindModelDbName(dm, db_name) ==
    Position(dm.models, LAMBDA m : FinalDatabaseName(m) = db_name)

\* Datamodel::find_enum
FindEnum(dm, name) == Position(dm.enums, LAMBDA e : e.name = name)

\* Datamodel::find_enum_db_name
FindEnumDbName(dm, db_name) ==
    Position(dm.enums, LAMBDA e : FinalDatabaseName(e) = db_name)

\* Model::find_field: the first field of that name, scalar or relation
FindField(model, name) == Position(model.fields, LAMBDA f : f.name = name)

\* Model::find_scalar_field
FindScalarField(model, name) ==
    Position(model.fields, LAMBDA f : IsScalar(f) /\ f.name = name)

\* Model::find_scalar_field_db_name
FindScalarFieldDbName(model, db_name) ==
    Position(model.fields, LAMBDA f : IsScalar(f) /\ FinalDatabaseName(f) = db_name)

\* Model::find_relation_field
FindRelationField(model, name) ==
    Position(model.fields, LAMBDA f : IsRelation(f) /\ f.name = name)

\* Enum::find_value
FindValue(enm, name) == Position(enm.values, LAMBDA v : v.name = name)

\* Enum::find_value_db_name
FindValueDbName(enm, db_name) ==
    Position(enm.values, LAMBDA v : FinalDatabaseName(v) = db_name)

\* Model::scalar_fields / Model::relation_fields, as indices into model.fields
ScalarFieldIdxs(model) ==
    SelectSeq([i \in DOMAIN model.fields |-> i], LAMBDA i : IsScalar(model.fields[i]))

RelationFieldIdxs(model) ==
    SelectSeq([i \in DOMAIN model.fields |-> i], LAMBDA i : IsRelation(model.fields[i]))

\* Datamodel::find_relation_fields_for_model: (model name, field name) of every
\* relation field pointing to model_name, in iteration order
FindRelationFieldsForModel(dm, model_name) ==
    Flatten([mi \in DOMAIN dm.models |->
        LET m == dm.models[mi] IN
        Flatten([fi \in DOMAIN m.fields |->
            IF IsRelation(m.fields[fi]) /\ m.fields[fi].relation_info.to = model_name
            THEN <<[model |-> m.name, field |-> m.fields[fi].name]>>
            ELSE <<>>])])

\* Datamodel::find_enum_fields: (model name, field name) of every scalar field
\* of type Enum(enum_name), in iteration order
FindEnumFields(dm, enum_name) ==
    Flatten([mi \in DOMAIN dm.models |->
        LET m == dm.models[mi] IN
        Flatten([fi \in DOMAIN m.fields |->
            IF IsScalar(m.fields[fi]) /\ m.fields[fi].field_type = TypeEnum(enum_name)
            THEN <<[model |-> m.name, field |-> m.fields[fi].name]>>
            ELSE <<>>])])

\* Datamodel::find_related_field: in the model rf points to, the first relation
\* field of the same relation name that is not rf itself; [mi, fi], 0 for None
FindRelatedField(dm, rf) ==
    LET mi == FindModel(dm, rf.relation_info.to) IN
    IF mi = 0 THEN [mi |-> 0, fi |-> 0]
    ELSE [mi |-> mi,
          fi |-> Position(dm.models[mi].fields, LAMBDA f :
                    /\ IsRelation(f)
                    /\ rf.relation_info.name = f.relation_info.name
                    /\ (f.relation_info.to # rf.relation_info.to \/ f.name # rf.name))]

\* introspection_helpers::replace_field_names
ReplaceFieldNames(target, old_name, new_name) ==
    [i \in DOMAIN target |-> IF target[i] = old_name THEN new_name ELSE target[i]]

\* Datamodel::find_model_mut(name).<set>: a panic when there is no such model
WithModel(st, name, Update(_)) ==
    IF ~st.ok THEN st
    ELSE LET mi == FindModel(st.dm, name) IN
         IF mi = 0 THEN Panic(st)
         ELSE [st EXCEPT !.dm.models[mi] = Update(@)]

\* Datamodel::find_scalar_field_mut(model, field).<set>
WithScalarField(st, model, field, Update(_)) ==
    IF ~st.ok THEN st
    ELSE LET mi == FindModel(st.dm, model) IN
         IF mi = 0 THEN Panic(st)
         ELSE LET fi == FindScalarField(st.dm.models[mi], field) IN
              IF fi = 0 THEN Panic(st)
              ELSE [st EXCEPT !.dm.models[mi].fields[fi] = Update(@)]

\* Datamodel::find_relation_field_mut(model, field).<set>
WithRelationField(st, model, field, Update(_)) ==
    IF ~st.ok THEN st
    ELSE LET mi == FindModel(st.dm, model) IN
         IF mi = 0 THEN Panic(st)
         ELSE LET fi == FindRelationField(st.dm.models[mi], field) IN
              IF fi = 0 THEN Panic(st)
              ELSE [st EXCEPT !.dm.models[mi].fields[fi] = Update(@)]

\* Datamodel::find_field_mut(model, field).<set>
WithField(st, model, field, Update(_)) ==
    IF ~st.ok THEN st
    ELSE LET mi == FindModel(st.dm, model) IN
         IF mi = 0 THEN Panic(st)
         ELSE LET fi == FindField(st.dm.models[mi], field) IN
              IF fi = 0 THEN Panic(st)
              ELSE [st EXCEPT !.dm.models[mi].fields[fi] = Update(@)]

\* Datamodel::find_enum_mut(name).<set>
WithEnum(st, name, Update(_)) ==
    IF ~st.ok THEN st
    ELSE LET ei == FindEnum(st.dm, name) IN
         IF ei = 0 THEN Panic(st)
         ELSE [st EXCEPT !.dm.enums[ei] = Update(@)]

(***************************************************************************)
(* Phase: @@map on models (re_introspection.rs 14-45).                     *)
(***************************************************************************)
\* a slip in lines 17-25: whether a new model carries the old name is not asked
CollectChangedModelNamesUnguarded(old, new) ==
    Flatten([i \in DOMAIN new.models |->
        LET model == new.models[i]
            oi == FindModelDbName(old, FinalDatabaseName(model)) IN
        IF oi # 0
        THEN <<[from |-> model.name, to |-> old.models[oi].name]>>
        ELSE <<>>])

\* lines 17-25: (new name, old name) of every new model whose database name
\* is an old model's and whose old name no new model carries
CollectChangedModelNames(old, new) ==
    Flatten([i \in DOMAIN new.models |->
        LET model == new.models[i]
            oi == FindModelDbName(old, FinalDatabaseName(model)) IN
        IF oi # 0 /\ FindModel(new, old.models[oi].name) = 0
        THEN <<[from |-> model.name, to |-> old.models[oi].name]>>
        ELSE <<>>])

\* a slip in lines 28-34: the @@map is written, the name is not
ChangeModelNameMapOnly(st, c) ==
    WithModel(st, c.from, LAMBDA m :
        [m EXCEPT !.database_name = IF @ = NONE THEN c.from ELSE @])

\* lines 28-34, one iteration
ChangeModelName(st, c) ==
    WithModel(st, c.from, LAMBDA m :
        [m EXCEPT !.name = c.to,
                  !.database_name = IF @ = NONE THEN c.from ELSE @])

\* lines 40-43, one iteration
ChangeRelationTo(st, f, to) ==
    WithRelationField(st, f.model, f.field, LAMBDA rf :
        [rf EXCEPT !.relation_info.to = to])

RECURSIVE ChangeRelationTos(_, _, _)
ChangeRelationTos(st, fs, to) ==
    IF fs = <<>> THEN st
    ELSE ChangeRelationTos(ChangeRelationTo(st, Head(fs), to), Tail(fs), to)

\* a slip in line 38: the relation fields are looked up under the new name
ChangeRelationTypesOfNewName(st, c) ==
    IF ~st.ok THEN st
    ELSE ChangeRelationTos(st, FindRelationFieldsForModel(st.dm, c.to), c.to)

\* lines 37-44, one iteration
ChangeRelationTypes(st, c) ==
    IF ~st.ok THEN st
    ELSE ChangeRelationTos(st, FindRelationFieldsForModel(st.dm, c.from), c.to)

(***************************************************************************)
(* Phase: custom index names (re_introspection.rs 50-75), only with the    *)
(* NamedConstraints preview feature.                                       *)
(***************************************************************************)
\* a slip in line 55: the old index is looked up by its fields
FindOldIndexOfFields(old_model, index) ==
    Position(old_model.indices, LAMBDA o : o.fields = index.fields)

\* line 55: old_model.indices.iter().find(|old| old.db_name == index.db_name)
FindOldIndex(old_model, index) ==
    Position(old_model.indices, LAMBDA o : o.db_name = index.db_name)

\* lines 52-63 for one model: the changes, and ok = FALSE when line 57 unwraps
\* the database name of an old index that has none
CollectIndexNamesOfModel(old, model) ==
    LET oi == FindModel(old, model.name) IN
    IF oi = 0 THEN [changes |-> <<>>, ok |-> TRUE]
    ELSE LET old_model == old.models[oi]
             hit(i) == LET x == FindOldIndex(old_model, model.indices[i]) IN
                       x # 0 /\ old_model.indices[x].name # NONE
             old_index(i) == old_model.indices[FindOldIndex(old_model, model.indices[i])]
         IN  [changes |-> Flatten([i \in DOMAIN model.indices |->
                              IF hit(i)
                              THEN <<[model |-> model.name,
                                      index_db_name |-> old_index(i).db_name,
                                      name |-> old_index(i).name]>>
                              ELSE <<>>]),
              ok |-> \A i \in DOMAIN model.indices :
                         hit(i) => old_index(i).db_name # NONE]

CollectChangedIndexNames(old, new) ==
    LET per == [i \in DOMAIN new.models |-> CollectIndexNamesOfModel(old, new.models[i])]
        \* the loop stops at the first panic: only the models before it count
        bad == Position(per, LAMBDA r : ~r.ok)
    IN  [changes |-> Flatten([i \in DOMAIN per |-> per[i].changes]),
         ok |-> bad = 0]

\* lines 66-74, one iteration
ChangeIndexName(st, c) ==
    IF ~st.ok THEN st
    ELSE LET mi == FindModel(st.dm, c.model) IN
         IF mi = 0 THEN Panic(st)
         ELSE LET ii == Position(st.dm.models[mi].indices,
                                 LAMBDA i : i.db_name = c.index_db_name) IN
              IF ii = 0 THEN Panic(st)
              ELSE [st EXCEPT !.dm.models[mi].indices[ii].name = c.name]

(***************************************************************************)
(* Phase: custom primary key names (re_introspection.rs 77-106).           *)
(***************************************************************************)
\* lines 79-93
CollectChangedPrimaryKeyNames(old, new) ==
    Flatten([i \in DOMAIN new.models |->
        LET model == new.models[i]
            oi == FindModel(old, model.name) IN
        IF /\ oi # 0
           /\ model.primary_key # <<>>
           /\ old.models[oi].primary_key # <<>>
           /\ LET old_primary_key == old.models[oi].primary_key[1]
                  primary_key == model.primary_key[1] IN
              /\ old_primary_key.fields = primary_key.fields
              /\ (old_primary_key.db_name = primary_key.db_name
                  \/ primary_key.db_name = NONE)
              /\ old_primary_key.name # NONE
        THEN <<[model |-> model.name, name |-> old.models[oi].primary_key[1].name]>>
        ELSE <<>>])

\* lines 96-105, one iteration
ChangePrimaryKeyName(st, c) ==
    WithModel(st, c.model, LAMBDA m :
        IF m.primary_key = <<>> THEN m
        ELSE [m EXCEPT !.primary_key[1].name = c.name])

(***************************************************************************)
(* Phase: @map on fields (re_introspection.rs 109-168).                    *)
(***************************************************************************)
\* lines 112-125
CollectChangedScalarFieldNames(old, new) ==
    Flatten([i \in DOMAIN new.models |->
        LET model == new.models[i]
            oi == FindModel(old, model.name) IN
        IF oi = 0 THEN <<>>
        ELSE LET old_model == old.models[oi]
                 sf == ScalarFieldIdxs(model) IN
             Flatten([k \in DOMAIN sf |->
                LET field == model.fields[sf[k]]
                    ofi == FindScalarFieldDbName(old_model, FinalDatabaseName(field)) IN
                IF ofi # 0 /\ FindScalarField(model, old_model.fields[ofi].name) = 0
                THEN <<[model |-> model.name, field |-> field.name,
                        to |-> old_model.fields[ofi].name]>>
                ELSE <<>>])])

\* lines 128-134, one iteration
ChangeFieldName(st, c) ==
    WithScalarField(st, c.model, c.field, LAMBDA f :
        [f EXCEPT !.name = c.to,
                  !.database_name = IF @ = NONE THEN c.field ELSE @])

\* lines 137-154, one iteration: usages in @@id, @@index, @@unique and on
\* RelationInfo.fields of the model's own relation fields
ChangeFieldUsages(st, c) ==
    WithModel(st, c.model, LAMBDA m :
        [m EXCEPT
            !.primary_key = [i \in DOMAIN @ |->
                [@[i] EXCEPT !.fields = ReplaceFieldNames(@, c.field, c.to)]],
            !.indices = [i \in DOMAIN @ |->
                [@[i] EXCEPT !.fields = ReplaceFieldNames(@, c.field, c.to)]],
            !.fields = [i \in DOMAIN @ |->
                IF IsRelation(@[i])
                THEN [@[i] EXCEPT !.relation_info.fields =
                                      ReplaceFieldNames(@, c.field, c.to)]
                ELSE @[i]]])

\* lines 160-165, one iteration
ChangeReference(st, f, c) ==
    WithRelationField(st, f.model, f.field, LAMBDA rf :
        [rf EXCEPT !.relation_info.references = ReplaceFieldNames(@, c.field, c.to)])

RECURSIVE ChangeReferencesOf(_, _, _)
ChangeReferencesOf(st, fs, c) ==
    IF fs = <<>> THEN st
    ELSE ChangeReferencesOf(ChangeReference(st, Head(fs), c), Tail(fs), c)

\* a slip in lines 157-167: the references of the model's own relation fields
\* are rewritten, not those of the relation fields pointing to it
ChangeOwnReferences(st, c) ==
    WithModel(st, c.model, LAMBDA m :
        [m EXCEPT !.fields = [i \in DOMAIN @ |->
            IF IsRelation(@[i])
            THEN [@[i] EXCEPT !.relation_info.references =
                                  ReplaceFieldNames(@, c.field, c.to)]
            ELSE @[i]]])

\* lines 157-167, one iteration
ChangeReferences(st, c) ==
    IF ~st.ok THEN st
    ELSE ChangeReferencesOf(st, FindRelationFieldsForModel(st.dm, c.model), c)

(***************************************************************************)
(* Phases: relation field names (re_introspection.rs 170-211) and relation *)
(* names (213-249).  Both walk every (new relation field, old relation     *)
(* field) pair of the models of one name and compare the relation infos of *)
(* both sides.                                                             *)
(***************************************************************************)
\* (new model index, new field index, old model index, old field index) in
\* the order the nested loops of lines 173-176 / 219-222 visit them
RelationFieldPairs(old, new) ==
    Flatten([mi \in DOMAIN new.models |->
        LET new_model == new.models[mi]
            oi == FindModel(old, new_model.name)
            nf == RelationFieldIdxs(new_model) IN
        Flatten([k \in DOMAIN nf |->
            IF oi = 0 THEN <<>>
            ELSE LET orf == RelationFieldIdxs(old.models[oi]) IN
                 [j \in DOMAIN orf |->
                    [mi |-> mi, fi |-> nf[k], oi |-> oi, ofi |-> orf[j]]]])])

\* find_related_field_bang on both sides finds a field for this pair
RelatedFieldsFound(old, new, p) ==
    /\ FindRelatedField(old, old.models[p.oi].fields[p.ofi]).fi # 0
    /\ FindRelatedField(new, new.models[p.mi].fields[p.fi]).fi # 0

OldField(old, p) == old.models[p.oi].fields[p.ofi]
NewField(new, p) == new.models[p.mi].fields[p.fi]

OldRelatedField(old, p) ==
    LET r == FindRelatedField(old, OldField(old, p)) IN old.models[r.mi].fields[r.fi]

NewRelatedField(new, p) ==
    LET r == FindRelatedField(new, NewField(new, p)) IN new.models[r.mi].fields[r.fi]

\* lines 185-186 / 228-229
RelationInfoPartialEq(old, new, p) ==
    /\ RelationInfoEq(OldField(old, p).relation_info, NewField(new, p).relation_info)
    /\ RelationInfoEq(OldRelatedField(old, p).relation_info,
                      NewRelatedField(new, p).relation_info)

\* line 178 / 230
IsManyToMany(old, p) == OldField(old, p).is_list /\ OldRelatedField(old, p).is_list

\* a slip in line 179: no relation is taken for a self relation
IsNeverSelfRelation(old, p) == FALSE

\* line 179
IsSelfRelation(old, p) ==
    OldField(old, p).relation_info.to = OldRelatedField(old, p).relation_info.to

\* lines 190-194
KeepsRelationFieldName(old, new, p) ==
    /\ RelationInfoPartialEq(old, new, p)
    /\ \/ ~IsManyToMany(old, p)
       \/ /\ OldField(old, p).relation_info.name = NewField(new, p).relation_info.name
          /\ ~IsSelfRelation(old, p)

\* lines 173-201
CollectChangedRelationFieldNames(old, new) ==
    LET pairs == RelationFieldPairs(old, new) IN
    [changes |-> Flatten([i \in DOMAIN pairs |->
                    IF RelatedFieldsFound(old, new, pairs[i])
                       /\ KeepsRelationFieldName(old, new, pairs[i])
                    THEN <<[model |-> new.models[pairs[i].mi].name,
                            field |-> NewField(new, pairs[i]).name,
                            to |-> OldField(old, pairs[i]).name]>>
                    ELSE <<>>]),
     ok |-> \A i \in DOMAIN pairs : RelatedFieldsFound(old, new, pairs[i])]

\* lines 203-210, one iteration
ChangeRelationFieldName(st, c) ==
    WithRelationField(st, c.model, c.field, LAMBDA rf : [rf EXCEPT !.name = c.to])

\* line 232
KeepsRelationName(old, new, p) ==
    RelationInfoPartialEq(old, new, p) /\ ~IsManyToMany(old, p)

\* lines 219-241: two entries per match, the field's and the related field's
CollectChangedRelationNames(old, new) ==
    LET pairs == RelationFieldPairs(old, new) IN
    [changes |-> Flatten([i \in DOMAIN pairs |->
                    IF RelatedFieldsFound(old, new, pairs[i])
                       /\ KeepsRelationName(old, new, pairs[i])
                    THEN <<[model |-> new.models[pairs[i].mi].name,
                            field |-> NewField(new, pairs[i]).name,
                            to |-> OldField(old, pairs[i]).relation_info.name],
                           [model |-> NewField(new, pairs[i]).relation_info.to,
                            field |-> NewRelatedField(new, pairs[i]).name,
                            to |-> OldField(old, pairs[i]).relation_info.name]>>
                    ELSE <<>>]),
     ok |-> \A i \in DOMAIN pairs : RelatedFieldsFound(old, new, pairs[i])]

\* lines 243-248, one iteration
ChangeRelationName(st, c) ==
    WithRelationField(st, c.model, c.field, LAMBDA rf :
        [rf EXCEPT !.relation_info.name = c.to])

(***************************************************************************)
(* Phase: @@map on enums (re_introspection.rs 251-277).                    *)
(***************************************************************************)
\* lines 254-260
CollectChangedEnumNames(old, new) ==
    Flatten([i \in DOMAIN new.enums |->
        LET enm == new.enums[i]
            oi == FindEnumDbName(old, FinalDatabaseName(enm)) IN
        IF oi # 0 /\ FindEnum(new, old.enums[oi].name) = 0
        THEN <<[from |-> enm.name, to |-> old.enums[oi].name]>>
        ELSE <<>>])

\* lines 261-267, one iteration
ChangeEnumName(st, c) ==
    WithEnum(st, c.from, LAMBDA e :
        [e EXCEPT !.name = c.to,
                  !.database_name = IF @ = NONE THEN c.from ELSE @])

\* lines 272-275, one iteration
ChangeFieldType(st, f, to) ==
    WithScalarField(st, f.model, f.field, LAMBDA sf :
        [sf EXCEPT !.field_type = TypeEnum(to)])

RECURSIVE ChangeFieldTypes(_, _, _)
ChangeFieldTypes(st, fs, to) ==
    IF fs = <<>> THEN st
    ELSE ChangeFieldTypes(ChangeFieldType(st, Head(fs), to), Tail(fs), to)

\* a slip in lines 269-276: the fields are looked up under the enum's new name
ChangeEnumUsagesOfNewName(st, c) ==
    IF ~st.ok THEN st
    ELSE ChangeFieldTypes(st, FindEnumFields(st.dm, c.to), c.to)

\* lines 269-276, one iteration
ChangeEnumUsages(st, c) ==
    IF ~st.ok THEN st
    ELSE ChangeFieldTypes(st, FindEnumFields(st.dm, c.from), c.to)

(***************************************************************************)
(* Phase: @map on enum values (re_introspection.rs 279-321).               *)
(***************************************************************************)
\* lines 282-295
CollectChangedEnumValues(old, new) ==
    Flatten([i \in DOMAIN new.enums |->
        LET enm == new.enums[i]
            oi == FindEnum(old, enm.name) IN
        IF oi = 0 THEN <<>>
        ELSE LET old_enum == old.enums[oi] IN
             Flatten([k \in DOMAIN enm.values |->
                LET value == enm.values[k]
                    ovi == FindValueDbName(old_enum, FinalDatabaseName(value)) IN
                IF ovi # 0 /\ FindValue(enm, old_enum.values[ovi].name) = 0
                THEN <<[enm |-> enm.name, value |-> value.name,
                        to |-> old_enum.values[ovi].name]>>
                ELSE <<>>])])

\* lines 296-303, one iteration
ChangeEnumValue(st, c) ==
    IF ~st.ok THEN st
    ELSE LET ei == FindEnum(st.dm, c.enm) IN
         IF ei = 0 THEN Panic(st)
         ELSE LET vi == FindValue(st.dm.enums[ei], c.value) IN
              IF vi = 0 THEN Panic(st)
              ELSE [st EXCEPT !.dm.enums[ei].values[vi] =
                        [@ EXCEPT !.name = c.to,
                                  !.database_name = IF @ = NONE THEN c.value ELSE @]]

\* lines 309-318, one iteration
ChangeDefault(st, f, c) ==
    WithScalarField(st, f.model, f.field, LAMBDA sf :
        IF sf.default_value = DefaultEnum(c.value)
        THEN [sf EXCEPT !.default_value = DefaultEnum(c.to)]
        ELSE sf)

RECURSIVE ChangeDefaultsOf(_, _, _)
ChangeDefaultsOf(st, fs, c) ==
    IF fs = <<>> THEN st
    ELSE ChangeDefaultsOf(ChangeDefault(st, Head(fs), c), Tail(fs), c)

\* a slip in lines 305-320: only the first field of the enum is looked at
ChangeFirstEnumValueDefault(st, c) ==
    IF ~st.ok THEN st
    ELSE LET fs == FindEnumFields(st.dm, c.enm) IN
         ChangeDefaultsOf(st, IF fs = <<>> THEN fs ELSE <<Head(fs)>>, c)

\* lines 305-320, one iteration
ChangeEnumValueDefaults(st, c) ==
    IF ~st.ok THEN st
    ELSE ChangeDefaultsOf(st, FindEnumFields(st.dm, c.enm), c)

(***************************************************************************)
(* Phase: mysql enum names (re_introspection.rs 323-362).                  *)
(***************************************************************************)
\* lines 328-348 for the i-th new enum, given the changes collected so far:
\* [hit, ok, change]
MysqlEnumNameOf(old, new, i, sofar) ==
    LET enm == new.enums[i]
        fs == FindEnumFields(new, enm.name)
        miss == [hit |-> FALSE, ok |-> TRUE, change |-> <<>>] IN
    IF fs = <<>> THEN miss
    ELSE LET oi == FindModel(old, fs[1].model) IN
         IF oi = 0 THEN miss
         ELSE LET ofi == FindField(old.models[oi], fs[1].field) IN
              IF ofi = 0 THEN miss
              ELSE LET old_field == old.models[oi].fields[ofi] IN
                   IF old_field.field_type.tag # "Enum" THEN miss
                   ELSE LET old_enum_name == old_field.field_type.name
                            oe == FindEnum(old, old_enum_name) IN
                        IF oe = 0 THEN [miss EXCEPT !.ok = FALSE]
                        ELSE IF /\ enm.values = old.enums[oe].values
                                /\ old_enum_name # enm.name
                                /\ ~\E k \in DOMAIN sofar : sofar[k].to = old_enum_name
                             THEN [hit |-> TRUE, ok |-> TRUE,
                                   change |-> <<[from |-> enm.name,
                                                 to |-> old.enums[oe].name,
                                                 model |-> fs[1].model,
                                                 field |-> fs[1].field]>>]
                             ELSE miss

\* lines 327-349, from the i-th enum on
RECURSIVE CollectMysqlEnumNames(_, _, _, _)
CollectMysqlEnumNames(old, new, i, sofar) ==
    IF i > Len(new.enums) THEN [changes |-> sofar, ok |-> TRUE]
    ELSE LET r == MysqlEnumNameOf(old, new, i, sofar) IN
         IF ~r.ok THEN [changes |-> sofar, ok |-> FALSE]
         ELSE CollectMysqlEnumNames(old, new, i + 1, sofar \o r.change)

\* lines 351-360, one iteration
ChangeMysqlEnumName(st, c) ==
    WithScalarField(
        WithEnum(st, c.from, LAMBDA e : [e EXCEPT !.name = c.to]),
        c.model, c.field, LAMBDA sf : [sf EXCEPT !.field_type = TypeEnum(c.to)])

(***************************************************************************)
(* Phase: Prisma level only concepts, @default(cuid()) / @default(uuid())  *)
(* / @updatedAt (re_introspection.rs 364-411).                             *)
(***************************************************************************)
\* lines 370-373: the (new model, new scalar field, old scalar field of the
\* same model name and field name) triples, in loop order
MatchedScalarFields(old, new) ==
    Flatten([mi \in DOMAIN new.models |->
        LET model == new.models[mi]
            oi == FindModel(old, model.name)
            sf == ScalarFieldIdxs(model) IN
        Flatten([k \in DOMAIN sf |->
            LET ofi == IF oi = 0 THEN 0
                       ELSE FindScalarField(old.models[oi], model.fields[sf[k]].name) IN
            IF ofi = 0 THEN <<>>
            ELSE <<[model |-> model.name, field |-> model.fields[sf[k]],
                    old_field |-> old.models[oi].fields[ofi]]>>])])

ModelAndField(t) == [model |-> t.model, field |-> t.field.name]

\* lines 374-378
CollectCuids(old, new) ==
    LET ts == SelectSeq(MatchedScalarFields(old, new), LAMBDA t :
                  /\ t.field.default_value = NoDefault
                  /\ t.field.field_type.tag = "String"
                  /\ t.old_field.default_value = DefaultCuid)
    IN [i \in DOMAIN ts |-> ModelAndField(ts[i])]

\* lines 374, 380-383
CollectUuids(old, new) ==
    LET ts == SelectSeq(MatchedScalarFields(old, new), LAMBDA t :
                  /\ t.field.default_value = NoDefault
                  /\ t.field.field_type.tag = "String"
                  /\ t.old_field.default_value = DefaultUuid)
    IN [i \in DOMAIN ts |-> ModelAndField(ts[i])]

\* lines 386-388
CollectUpdatedAt(old, new) ==
    LET ts == SelectSeq(MatchedScalarFields(old, new), LAMBDA t :
                  /\ t.field.field_type.tag = "DateTime"
                  /\ t.old_field.is_updated_at)
    IN [i \in DOMAIN ts |-> ModelAndField(ts[i])]

\* lines 394-398, one iteration
SetCuid(st, mf) ==
    WithScalarField(st, mf.model, mf.field, LAMBDA f :
        [f EXCEPT !.default_value = DefaultCuid])

\* lines 400-404, one iteration
SetUuid(st, mf) ==
    WithScalarField(st, mf.model, mf.field, LAMBDA f :
        [f EXCEPT !.default_value = DefaultUuid])

\* lines 406-410, one iteration
SetUpdatedAt(st, mf) ==
    WithScalarField(st, mf.model, mf.field, LAMBDA f :
        [f EXCEPT !.is_updated_at = TRUE])

(***************************************************************************)
(* Phase: @@ignore on models, @ignore on fields (re_introspection.rs       *)
(* 413-441).                                                               *)
(***************************************************************************)
\* lines 418-422
CollectModelIgnores(old, new) ==
    LET ms == SelectSeq(new.models, LAMBDA m :
                  LET oi == FindModel(old, m.name) IN
                  oi # 0 /\ old.models[oi].is_ignored)
    IN [i \in DOMAIN ms |-> [model |-> ms[i].name]]

\* lines 424-430
CollectFieldIgnores(old, new) ==
    LET ts == SelectSeq(MatchedScalarFields(old, new), LAMBDA t : t.old_field.is_ignored)
    IN [i \in DOMAIN ts |-> ModelAndField(ts[i])]

\* a slip in line 435: the flag is flipped instead of set
SetModelIgnoredFlipped(st, m) ==
    WithModel(st, m.model, LAMBDA x : [x EXCEPT !.is_ignored = ~@])

\* lines 434-436, one iteration
SetModelIgnored(st, m) ==
    WithModel(st, m.model, LAMBDA x : [x EXCEPT !.is_ignored = TRUE])

\* lines 438-440, one iteration
SetFieldIgnored(st, mf) ==
    WithField(st, mf.model, mf.field, LAMBDA f : [f EXCEPT !.is_ignored = TRUE])

(***************************************************************************)
(* Phase: comments (re_introspection.rs 443-509).                          *)
(***************************************************************************)
\* lines 448-453: pushed once per field of the model
CollectModelComments(old, new) ==
    Flatten([mi \in DOMAIN new.models |->
        LET model == new.models[mi]
            oi == FindModel(old, model.name) IN
        Flatten([fi \in DOMAIN model.fields |->
            IF oi # 0 /\ old.models[oi].documentation # NONE
            THEN <<[model |-> model.name,
                    documentation |-> old.models[oi].documentation]>>
            ELSE <<>>])])

\* lines 449-461
CollectFieldComments(old, new) ==
    Flatten([mi \in DOMAIN new.models |->
        LET model == new.models[mi]
            oi == FindModel(old, model.name) IN
        Flatten([fi \in DOMAIN model.fields |->
            LET ofi == IF oi = 0 THEN 0
                       ELSE FindField(old.models[oi], model.fields[fi].name) IN
            IF ofi # 0 /\ old.models[oi].fields[ofi].documentation # NONE
            THEN <<[model |-> model.name, field |-> model.fields[fi].name,
                    documentation |-> old.models[oi].fields[ofi].documentation]>>
            ELSE <<>>])])

\* lines 466-468, one iteration
SetModelComment(st, c) ==
    WithModel(st, c.model, LAMBDA m : [m EXCEPT !.documentation = c.documentation])

\* lines 470-474, one iteration
SetFieldComment(st, c) ==
    WithField(st, c.model, c.field, LAMBDA f :
        [f EXCEPT !.documentation = c.documentation])

\* lines 480-485: pushed once per value of the enum
CollectEnumComments(old, new) ==
    Flatten([ei \in DOMAIN new.enums |->
        LET enm == new.enums[ei]
            oi == FindEnum(old, enm.name) IN
        Flatten([vi \in DOMAIN enm.values |->
            IF oi # 0 /\ old.enums[oi].documentation # NONE
            THEN <<[enm |-> enm.name, documentation |-> old.enums[oi].documentation]>>
            ELSE <<>>])])

\* lines 481-493
CollectEnumValueComments(old, new) ==
    Flatten([ei \in DOMAIN new.enums |->
        LET enm == new.enums[ei]
            oi == FindEnum(old, enm.name) IN
        Flatten([vi \in DOMAIN enm.values |->
            LET ovi == IF oi = 0 THEN 0
                       ELSE FindValue(old.enums[oi], enm.values[vi].name) IN
            IF ovi # 0 /\ old.enums[oi].values[ovi].documentation # NONE
            THEN <<[enm |-> enm.name, value |-> enm.values[vi].name,
                    documentation |-> old.enums[oi].values[ovi].documentation]>>
            ELSE <<>>])])

\* lines 498-500, one iteration
SetEnumComment(st, c) ==
    WithEnum(st, c.enm, LAMBDA e : [e EXCEPT !.documentation = c.documentation])

\* lines 502-507, one iteration
SetEnumValueComment(st, c) ==
    IF ~st.ok THEN st
    ELSE LET ei == FindEnum(st.dm, c.enm) IN
         IF ei = 0 THEN Panic(st)
         ELSE LET vi == FindValue(st.dm.enums[ei], c.value) IN
              IF vi = 0 THEN Panic(st)
              ELSE [st EXCEPT !.dm.enums[ei].values[vi].documentation = c.documentation]

(***************************************************************************)
(* Phase: restore the old order (re_introspection.rs 511-525, 589-596).    *)
(***************************************************************************)
\* a slip in lines 589-596: (None, Some) and (Some, None) swapped
re_order_putting_new_ones_first(a_idx, b_idx) ==
    CASE a_idx = 0 /\ b_idx = 0 -> "Equal"
      [] a_idx = 0 /\ b_idx # 0 -> "Less"
      [] a_idx # 0 /\ b_idx = 0 -> "Greater"
      [] OTHER -> IF a_idx < b_idx THEN "Less"
                  ELSE IF a_idx > b_idx THEN "Greater" ELSE "Equal"

\* lines 589-596; an index of 0 is None
re_order_putting_new_ones_last(a_idx, b_idx) ==
    CASE a_idx = 0 /\ b_idx = 0 -> "Equal"
      [] a_idx = 0 /\ b_idx # 0 -> "Greater"
      [] a_idx # 0 /\ b_idx = 0 -> "Less"
      [] OTHER -> IF a_idx < b_idx THEN "Less"
                  ELSE IF a_idx > b_idx THEN "Greater" ELSE "Equal"

\* slice::sort_by is a stable sort: x goes behind the last element of the
\* sorted prefix that does not compare Greater than it
InsertStable(sorted, x, Idx(_)) ==
    LET after == {0} \cup {i \in DOMAIN sorted :
                     re_order_putting_new_ones_last(Idx(sorted[i]), Idx(x)) # "Greater"}
        at == CHOOSE i \in after : \A j \in after : j <= i
    IN SubSeq(sorted, 1, at) \o <<x>> \o SubSeq(sorted, at + 1, Len(sorted))

\* lines 512-517: the key is the position of the model's name in the old tree
RECURSIVE SortModels(_, _)
SortModels(old, models) ==
    IF models = <<>> THEN <<>>
    ELSE InsertStable(SortModels(old, SubSeq(models, 1, Len(models) - 1)),
                      models[Len(models)],
                      LAMBDA m : FindModel(old, m.name))

\* lines 520-525
RECURSIVE SortEnums(_, _)
SortEnums(old, enums) ==
    IF enums = <<>> THEN <<>>
    ELSE InsertStable(SortEnums(old, SubSeq(enums, 1, Len(enums) - 1)),
                      enums[Len(enums)],
                      LAMBDA e : FindEnum(old, e.name))

(***************************************************************************)
(* Phase: warnings (re_introspection.rs 527-586).                          *)
(***************************************************************************)
Warning(code, affected) ==
    IF affected = <<>> THEN <<>> ELSE <<[code |-> code, affected |-> affected]>>

Warnings(l) ==
       Warning("warning_enriched_with_map_on_model",
               [i \in DOMAIN l.changed_model_names |->
                   [model |-> l.changed_model_names[i].to]])
    \o Warning("warning_enriched_with_custom_index_names",
               [i \in DOMAIN l.changed_index_names |->
                   [model |-> l.changed_index_names[i].model,
                    index_db_name |-> l.changed_index_names[i].index_db_name]])
    \o Warning("warning_enriched_with_custom_primary_key_names",
               [i \in DOMAIN l.changed_primary_key_names |->
                   [model |-> l.changed_primary_key_names[i].model]])
    \o Warning("warning_enriched_with_map_on_field",
               [i \in DOMAIN l.changed_scalar_field_names |->
                   [model |-> l.changed_scalar_field_names[i].model,
                    field |-> l.changed_scalar_field_names[i].to]])
    \o Warning("warning_enriched_with_map_on_enum",
               [i \in DOMAIN l.changed_enum_names |->
                   [enm |-> l.changed_enum_names[i].to]])
    \o Warning("warning_enriched_with_map_on_enum_value",
               [i \in DOMAIN l.changed_enum_values |->
                   [enm |-> l.changed_enum_values[i].enm,
                    value |-> l.changed_enum_values[i].to]])
    \o Warning("warning_enriched_with_cuid", l.re_introspected_prisma_level_cuids)
    \o Warning("warning_enriched_with_uuid", l.re_introspected_prisma_level_uuids)
    \o Warning("warning_enriched_with_updated_at", l.re_introspected_updated_at)
    \o Warning("warning_enriched_models_with_ignore", l.re_introspected_model_ignores)
    \o Warning("warning_enriched_fields_with_ignore", l.re_introspected_field_ignores)

(***************************************************************************)
(* enrich, phase by phase.  Every "for change in &changes" loop is a fold  *)
(* of one of the steps above over the change list.                         *)
(***************************************************************************)
Step(kind, st, c) ==
    CASE kind = "ChangeModelName" -> ChangeModelName(st, c)
      [] kind = "ChangeRelationTypes" -> ChangeRelationTypes(st, c)
      [] kind = "ChangeIndexName" -> ChangeIndexName(st, c)
      [] kind = "ChangePrimaryKeyName" -> ChangePrimaryKeyName(st, c)
      [] kind = "ChangeFieldName" -> ChangeFieldName(st, c)
      [] kind = "ChangeFieldUsages" -> ChangeFieldUsages(st, c)
      [] kind = "ChangeReferences" -> ChangeReferences(st, c)
      [] kind = "ChangeRelationFieldName" -> ChangeRelationFieldName(st, c)
      [] kind = "ChangeRelationName" -> ChangeRelationName(st, c)
      [] kind = "ChangeEnumName" -> ChangeEnumName(st, c)
      [] kind = "ChangeEnumUsages" -> ChangeEnumUsages(st, c)
      [] kind = "ChangeEnumValue" -> ChangeEnumValue(st, c)
      [] kind = "ChangeEnumValueDefaults" -> ChangeEnumValueDefaults(st, c)
      [] kind = "ChangeMysqlEnumName" -> ChangeMysqlEnumName(st, c)
      [] kind = "SetCuid" -> SetCuid(st, c)
      [] kind = "SetUuid" -> SetUuid(st, c)
      [] kind = "SetUpdatedAt" -> SetUpdatedAt(st, c)
      [] kind = "SetModelIgnored" -> SetModelIgnored(st, c)
      [] kind = "SetFieldIgnored" -> SetFieldIgnored(st, c)
      [] kind = "SetModelComment" -> SetModelComment(st, c)
      [] kind = "SetFieldComment" -> SetFieldComment(st, c)
      [] kind = "SetEnumComment" -> SetEnumComment(st, c)
      [] kind = "SetEnumValueComment" -> SetEnumValueComment(st, c)

RECURSIVE ForEach(_, _, _)
ForEach(kind, st, changes) ==
    IF changes = <<>> THEN st
    ELSE ForEach(kind, Step(kind, st, Head(changes)), Tail(changes))

NoLocals ==
    [changed_model_names |-> <<>>,
     changed_index_names |-> <<>>,
     changed_primary_key_names |-> <<>>,
     changed_scalar_field_names |-> <<>>,
     changed_relation_field_names |-> <<>>,
     changed_relation_names |-> <<>>,
     changed_enum_names |-> <<>>,
     changed_enum_values |-> <<>>,
     changed_mysql_enum_names |-> <<>>,
     re_introspected_prisma_level_cuids |-> <<>>,
     re_introspected_prisma_level_uuids |-> <<>>,
     re_introspected_updated_at |-> <<>>,
     re_introspected_model_ignores |-> <<>>,
     re_introspected_field_ignores |-> <<>>]

\* the end of a phase: the tree it leaves, and where enrich goes next
Goto(st, next) ==
    /\ new_data_model' = st.dm
    /\ pc' = IF st.ok THEN next ELSE "panicked"

Frame == UNCHANGED <<old_data_model, ctx, warnings, call, input_new, differ_vars>>

\* lines 14-45
ModelNames ==
    /\ pc = "model_names"
    /\ LET changes == CollectChangedModelNames(old_data_model, new_data_model)
           st == ForEach("ChangeRelationTypes",
                         ForEach("ChangeModelName", Running(new_data_model), changes),
                         changes) IN
       /\ locals' = [locals EXCEPT !.changed_model_names = changes]
       /\ Goto(st, "constraint_names")
    /\ Frame

\* lines 47-107
ConstraintNames ==
    /\ pc = "constraint_names"
    /\ IF ctx.named_constraints
       THEN LET idx == CollectChangedIndexNames(old_data_model, new_data_model)
                st1 == IF idx.ok
                       THEN ForEach("ChangeIndexName", Running(new_data_model), idx.changes)
                       ELSE Panic(Running(new_data_model))
                pks == IF st1.ok
                       THEN CollectChangedPrimaryKeyNames(old_data_model, st1.dm)
                       ELSE <<>>
                st2 == ForEach("ChangePrimaryKeyName", st1, pks) IN
            /\ locals' = [locals EXCEPT !.changed_index_names = idx.changes,
                                        !.changed_primary_key_names = pks]
            /\ Goto(st2, "field_names")
       ELSE /\ locals' = locals
            /\ Goto(Running(new_data_model), "field_names")
    /\ Frame

\* lines 109-168
FieldNames ==
    /\ pc = "field_names"
    /\ LET changes == CollectChangedScalarFieldNames(old_data_model, new_data_model)
           st == ForEach("ChangeReferences",
                    ForEach("ChangeFieldUsages",
                       ForEach("ChangeFieldName", Running(new_data_model), changes),
                       changes),
                    changes) IN
       /\ locals' = [locals EXCEPT !.changed_scalar_field_names = changes]
       /\ Goto(st, "relation_field_names")
    /\ Frame

\* lines 170-211
RelationFieldNames ==
    /\ pc = "relation_field_names"
    /\ LET r == CollectChangedRelationFieldNames(old_data_model, new_data_model)
           st == IF r.ok
                 THEN ForEach("ChangeRelationFieldName", Running(new_data_model), r.changes)
                 ELSE Panic(Running(new_data_model)) IN
       /\ locals' = [locals EXCEPT !.changed_relation_field_names =
                                       IF r.ok THEN r.changes ELSE <<>>]
       /\ Goto(st, "relation_names")
    /\ Frame

\* lines 213-249
RelationNames ==
    /\ pc = "relation_names"
    /\ LET r == CollectChangedRelationNames(old_data_model, new_data_model)
           st == IF r.ok
                 THEN ForEach("ChangeRelationName", Running(new_data_model), r.changes)
                 ELSE Panic(Running(new_data_model)) IN
       /\ locals' = [locals EXCEPT !.changed_relation_names =
                                       IF r.ok THEN r.changes ELSE <<>>]
       /\ Goto(st, "enum_names")
    /\ Frame

\* lines 251-277
EnumNames ==
    /\ pc = "enum_names"
    /\ LET changes == CollectChangedEnumNames(old_data_model, new_data_model)
           st == ForEach("ChangeEnumUsages",
                         ForEach("ChangeEnumName", Running(new_data_model), changes),
                         changes) IN
       /\ locals' = [locals EXCEPT !.changed_enum_names = changes]
       /\ Goto(st, "enum_values")
    /\ Frame

\* lines 279-321
EnumValues ==
    /\ pc = "enum_values"
    /\ LET changes == CollectChangedEnumValues(old_data_model, new_data_model)
           st == ForEach("ChangeEnumValueDefaults",
                         ForEach("ChangeEnumValue", Running(new_data_model), changes),
                         changes) IN
       /\ locals' = [locals EXCEPT !.changed_enum_values = changes]
       /\ Goto(st, "mysql_enum_names")
    /\ Frame

\* lines 323-362
MysqlEnumNames ==
    /\ pc = "mysql_enum_names"
    /\ IF ctx.mysql
       THEN LET r == CollectMysqlEnumNames(old_data_model, new_data_model, 1, <<>>)
                st == IF r.ok
                      THEN ForEach("ChangeMysqlEnumName", Running(new_data_model), r.changes)
                      ELSE Panic(Running(new_data_model)) IN
            /\ locals' = [locals EXCEPT !.changed_mysql_enum_names =
                                            IF r.ok THEN r.changes ELSE <<>>]
            /\ Goto(st, "prisma_level")
       ELSE /\ locals' = locals
            /\ Goto(Running(new_data_model), "prisma_level")
    /\ Frame

\* lines 364-411
PrismaLevel ==
    /\ pc = "prisma_level"
    /\ LET cuids == CollectCuids(old_data_model, new_data_model)
           uuids == CollectUuids(old_data_model, new_data_model)
           updated_at == CollectUpdatedAt(old_data_model, new_data_model)
           st == ForEach("SetUpdatedAt",
                    ForEach("SetUuid",
                       ForEach("SetCuid", Running(new_data_model), cuids),
                       uuids),
                    updated_at) IN
       /\ locals' = [locals EXCEPT !.re_introspected_prisma_level_cuids = cuids,
                                   !.re_introspected_prisma_level_uuids = uuids,
                                   !.re_introspected_updated_at = updated_at]
       /\ Goto(st, "ignores")
    /\ Frame

\* lines 413-441
Ignores ==
    /\ pc = "ignores"
    /\ LET model_ignores == CollectModelIgnores(old_data_model, new_data_model)
           field_ignores == CollectFieldIgnores(old_data_model, new_data_model)
           st == ForEach("SetFieldIgnored",
                         ForEach("SetModelIgnored", Running(new_data_model), model_ignores),
                         field_ignores) IN
       /\ locals' = [locals EXCEPT !.re_introspected_model_ignores = model_ignores,
                                   !.re_introspected_field_ignores = field_ignores]
       /\ Goto(st, "comments")
    /\ Frame

\* lines 443-509
Comments ==
    /\ pc = "comments"
    /\ LET st1 == ForEach("SetFieldComment",
                     ForEach("SetModelComment", Running(new_data_model),
                             CollectModelComments(old_data_model, new_data_model)),
                     CollectFieldComments(old_data_model, new_data_model))
           st2 == ForEach("SetEnumValueComment",
                     ForEach("SetEnumComment", st1,
                             CollectEnumComments(old_data_model, new_data_model)),
                     CollectEnumValueComments(old_data_model, new_data_model)) IN
       Goto(st2, "order")
    /\ UNCHANGED locals
    /\ Frame

\* lines 511-525
RestoreOrder ==
    /\ pc = "order"
    /\ new_data_model' =
           [models |-> SortModels(old_data_model, new_data_model.models),
            enums |-> SortEnums(old_data_model, new_data_model.enums)]
    /\ pc' = "warnings"
    /\ UNCHANGED locals
    /\ Frame

\* lines 527-586
EmitWarnings ==
    /\ pc = "warnings"
    /\ warnings' = Warnings(locals)
    /\ pc' = "done"
    /\ UNCHANGED <<old_data_model, new_data_model, ctx, locals, call, input_new,
                   differ_vars>>

\* the caller re-introspects: enrich runs again with the tree the first call
\* left as the old datamodel and an identical copy of it as the new one
Reintrospect ==
    /\ pc = "done"
    /\ call = 1
    /\ old_data_model' = new_data_model
    /\ input_new' = new_data_model
    /\ call' = 2
    /\ pc' = "model_names"
    /\ locals' = NoLocals
    /\ warnings' = <<>>
    /\ UNCHANGED <<new_data_model, ctx, differ_vars>>

EnrichNext ==
    \/ ModelNames
    \/ ConstraintNames
    \/ FieldNames
    \/ RelationFieldNames
    \/ RelationNames
    \/ EnumNames
    \/ EnumValues
    \/ MysqlEnumNames
    \/ PrismaLevel
    \/ Ignores
    \/ Comments
    \/ RestoreOrder
    \/ EmitWarnings
    \/ Reintrospect

(***************************************************************************)
(* The column differ (sql_schema_differ/column.rs).  A text is a sequence  *)
(* of characters, so that to_lowercase and the JSON parser work on what    *)
(* the text says.                                                          *)
(***************************************************************************)
\* str::to_lowercase, on the letters the model uses
LowerChar(c) ==
    CASE c = "A" -> "a"
      [] c = "B" -> "b"
      [] OTHER -> c

ToLowercase(text) == [i \in DOMAIN text |-> LowerChar(text[i])]

\* serde_json::from_str::<Value> on texts made of { } [ ] , digits and blanks:
\* numbers, empty objects and arrays of values
JsonDigits == {"1", "2"}

RECURSIVE SkipBlanks(_, _)
SkipBlanks(text, i) ==
    IF i <= Len(text) /\ text[i] = " " THEN SkipBlanks(text, i + 1) ELSE i

RECURSIVE EndOfNumber(_, _)
EndOfNumber(text, i) ==
    IF i <= Len(text) /\ text[i] \in JsonDigits THEN EndOfNumber(text, i + 1) ELSE i

JsonError == [ok |-> FALSE, value |-> <<>>, next |-> 0]

JsonOk(tag, number, items, next) ==
    [ok |-> TRUE, value |-> [tag |-> tag, number |-> number, items |-> items],
     next |-> next]

RECURSIVE ParseJsonValue(_, _)
RECURSIVE ParseJsonItems(_, _, _)
ParseJsonValue(text, i) ==
    LET j == SkipBlanks(text, i) IN
    IF j > Len(text) THEN JsonError
    ELSE IF text[j] \in JsonDigits
         THEN JsonOk("number", SubSeq(text, j, EndOfNumber(text, j) - 1), <<>>,
                     EndOfNumber(text, j))
    ELSE IF text[j] = "{"
         THEN LET k == SkipBlanks(text, j + 1) IN
              IF k <= Len(text) /\ text[k] = "}"
              THEN JsonOk("object", <<>>, <<>>, k + 1)
              ELSE JsonError
    ELSE IF text[j] = "["
         THEN LET k == SkipBlanks(text, j + 1) IN
              IF k <= Len(text) /\ text[k] = "]"
              THEN JsonOk("array", <<>>, <<>>, k + 1)
              ELSE ParseJsonItems(text, k, <<>>)
    ELSE JsonError

ParseJsonItems(text, i, items) ==
    LET v == ParseJsonValue(text, i) IN
    IF ~v.ok THEN JsonError
    ELSE LET k == SkipBlanks(text, v.next) IN
         IF k > Len(text) THEN JsonError
         ELSE IF text[k] = "," THEN ParseJsonItems(text, k + 1, Append(items, v.value))
         ELSE IF text[k] = "]" THEN JsonOk("array", <<>>, Append(items, v.value), k + 1)
         ELSE JsonError

\* the whole text must be one value, blanks around it allowed
JsonFromStr(text) ==
    LET v == ParseJsonValue(text, 1) IN
    IF v.ok /\ SkipBlanks(text, v.next) > Len(text) THEN v ELSE JsonError

\* a slip in column.rs 104-109: unwrap_or(false), a text that does not parse
\* makes the defaults differ
json_defaults_match_fail_closed(previous, next) ==
    LET p == JsonFromStr(previous)
        n == JsonFromStr(next) IN
    IF p.ok /\ n.ok THEN p.value = n.value ELSE FALSE

\* column.rs 104-109
json_defaults_match(previous, next) ==
    LET p == JsonFromStr(previous)
        n == JsonFromStr(next) IN
    IF p.ok /\ n.ok THEN p.value = n.value ELSE TRUE

\* DefaultValue: [kind, type, text, constraint_name]; kind is the DefaultKind
\* ("Value", "Now", "Sequence", "DbGenerated"), type the PrismaValue's variant
\* for a Value
DefaultValue(kind, type, text, constraint_name) ==
    [kind |-> kind, type |-> type, text |-> text, constraint_name |-> constraint_name]

\* Option<DefaultValue>::map(|d| d.kind()): "None" for no default
KindOf(default) == IF default = <<>> THEN "None" ELSE default[1].kind

\* prev.and_then(|v| v.constraint_name())
ConstraintNameOf(default) == IF default = <<>> THEN NONE ELSE default[1].constraint_name

Column(name, arity, family, default, autoincrement) ==
    [name |-> name, arity |-> arity, family |-> family, default |-> default,
     autoincrement |-> autoincrement]

\* a slip in column.rs 50-57: the constraint names are never looked at
names_match_unconditionally(c, f) == TRUE

\* column.rs 50-57
names_match(c, f) ==
    IF f.named_constraints
    THEN ConstraintNameOf(c.previous.default) = ConstraintNameOf(c.next.default)
    ELSE TRUE

\* a slip in column.rs 59-101: defaults match when they are of one kind
defaults_match_same_kind(c, f) == KindOf(c.previous.default) = KindOf(c.next.default)

\* a slip in column.rs 59-101: defaults match when they are the same default
defaults_match_same_default(c, f) == c.previous.default = c.next.default

\* column.rs 59-101, the match on the two kinds
defaults_match_kinds(c, f) ==
    LET prev == c.previous.default
        next == c.next.default
        p == KindOf(prev)
        n == KindOf(next)
        IsJson(d) == d[1].type = "Json"
        IsString(d) == d[1].type = "String"
    IN
    CASE p = "Value" /\ n = "Value" ->
            IF \/ IsJson(prev) /\ IsJson(next)
               \/ IsString(prev) /\ IsJson(next)
               \/ IsJson(prev) /\ IsString(next)
            THEN json_defaults_match(prev[1].text, next[1].text) /\ names_match(c, f)
            ELSE (prev[1].type = next[1].type /\ prev[1].text = next[1].text)
                 /\ names_match(c, f)
      [] p = "Value" /\ n = "Now" -> FALSE
      [] p = "Value" /\ n = "None" -> FALSE
      [] p = "Now" /\ n = "Now" -> TRUE
      [] p = "Now" /\ n = "None" -> FALSE
      [] p = "Now" /\ n = "Value" -> FALSE
      [] p = "DbGenerated" /\ n = "Value" -> FALSE
      [] p = "DbGenerated" /\ n = "Now" -> FALSE
      [] p = "DbGenerated" /\ n = "None" -> FALSE
      [] p = "Sequence" /\ n = "None" -> TRUE
      [] p = "Sequence" /\ n = "Value" -> FALSE
      [] p = "Sequence" /\ n = "Now" -> FALSE
      [] p = "None" /\ n = "None" -> TRUE
      [] p = "None" /\ n = "Value" -> FALSE
      [] p = "None" /\ n = "Now" -> FALSE
      [] p = "DbGenerated" /\ n = "DbGenerated" ->
            (ToLowercase(prev[1].text) = ToLowercase(next[1].text)) /\ names_match(c, f)
      [] n = "DbGenerated" -> FALSE
      [] n = "Sequence" -> TRUE

\* a slip in column.rs 38-43: the families are not looked at
json_defaults_ignored_always(c, f) == f.should_ignore_json_defaults

\* a slip in column.rs 38-43: only the previous column's family is looked at
json_defaults_ignored_previous(c, f) ==
    f.should_ignore_json_defaults /\ c.previous.family = "Json"

\* column.rs 38-43
json_defaults_ignored(c, f) ==
    /\ f.should_ignore_json_defaults
    /\ (c.previous.family = "Json" \/ c.next.family = "Json")

\* column.rs 37-102
defaults_match(c, f) ==
    IF json_defaults_ignored(c, f) THEN TRUE ELSE defaults_match_kinds(c, f)

\* a slip in column.rs 11-29: the five tests chained with else, the first
\* difference found is the only one flagged
all_changes_first_only(c, f) ==
    [type_change |-> f.column_type_change,
     changes |->
        IF c.previous.name # c.next.name THEN {"Renaming"}
        ELSE IF c.previous.arity # c.next.arity THEN {"Arity"}
        ELSE IF f.column_type_change # NONE THEN {"TypeChanged"}
        ELSE IF ~defaults_match(c, f) THEN {"Default"}
        ELSE IF c.previous.autoincrement # c.next.autoincrement THEN {"Sequence"}
        ELSE {}]

\* column.rs 7-32: the flags set, and the type change of the flavour
all_changes(c, f) ==
    [type_change |-> f.column_type_change,
     changes |->
            (IF c.previous.name # c.next.name THEN {"Renaming"} ELSE {})
       \cup (IF c.previous.arity # c.next.arity THEN {"Arity"} ELSE {})
       \cup (IF f.column_type_change # NONE THEN {"TypeChanged"} ELSE {})
       \cup (IF ~defaults_match(c, f) THEN {"Default"} ELSE {})
       \cup (IF c.previous.autoincrement # c.next.autoincrement THEN {"Sequence"} ELSE {})]

\* column.rs 147-149
autoincrement_changed(cc) == "Sequence" \in cc.changes

\* column.rs 155-157
type_changed(cc) == "TypeChanged" \in cc.changes

\* column.rs 159-161
arity_changed(cc) == "Arity" \in cc.changes

\* column.rs 175-177
column_was_renamed(cc) == "Renaming" \in cc.changes

\* column.rs 163-165
default_changed(cc) == "Default" \in cc.changes

\* the outer differ calls all_changes once for a column pair
AllChanges ==
    /\ column_changes = <<>>
    /\ cols # <<>>
    /\ column_changes' = <<all_changes(cols, flavour)>>
    /\ UNCHANGED <<cols, flavour, enrich_vars>>

DifferNext == AllChanges

NoEnrichState ==
    /\ old_data_model = Datamodel(<<>>, <<>>)
    /\ new_data_model = Datamodel(<<>>, <<>>)
    /\ input_new = Datamodel(<<>>, <<>>)
    /\ ctx = <<>>
    /\ pc = "idle"
    /\ locals = NoLocals
    /\ warnings = <<>>
    /\ call = 0

\* the texts of the defaults: JSON documents, equal and not, well-formed and not
JsonTexts ==
    {<<"{", "}">>, <<"{", " ", "}">>, <<"[", "1", "]">>, <<"[", "1", ",", "2", "]">>,
     <<"[", "1", " ", ",", "2", "]">>, <<"{">>, <<"1">>}

\* the expressions of the database generated defaults
DbGeneratedTexts == {<<"a">>, <<"A">>, <<"b">>, <<"a", "B">>, <<"A", "b">>}

DefaultConstraintNames == {NONE, "c1", "c2"}

Defaults ==
    {<<>>}
    \cup {<<DefaultValue("Value", t, x, n)>> :
             t \in {"String", "Json"}, x \in JsonTexts, n \in DefaultConstraintNames}
    \cup {<<DefaultValue("Value", "Int", x, n)>> :
             x \in {<<"1">>, <<"2">>}, n \in DefaultConstraintNames}
    \cup {<<DefaultValue("Now", NONE, <<>>, n)>> : n \in DefaultConstraintNames}
    \cup {<<DefaultValue("Sequence", NONE, <<"s">>, n)>> : n \in DefaultConstraintNames}
    \cup {<<DefaultValue("DbGenerated", NONE, x, n)>> :
             x \in DbGeneratedTexts, n \in DefaultConstraintNames}

Families == {"Json", "String"}

Flavours ==
    [should_ignore_json_defaults : BOOLEAN, named_constraints : BOOLEAN,
     column_type_change : {NONE}]

\* column pairs that differ in their defaults and type families only
InitDefaults ==
    \E p \in Defaults, n \in Defaults, pf \in Families, nf \in Families, f \in Flavours :
        /\ cols = [previous |-> Column("c", "Required", pf, p, FALSE),
                   next |-> Column("c", "Required", nf, n, FALSE)]
        /\ flavour = f
        /\ column_changes = <<>>
        /\ NoEnrichState

SpecDefaults == InitDefaults /\ [][DifferNext]_vars

\* column.rs 111-120
ColumnChange == {"Renaming", "Arity", "Default", "TypeChanged", "Sequence"}

\* column.rs 180-185, and NONE for no type change
ColumnTypeChange == {"SafeCast", "RiskyCast", "NotCastable"}

ColumnArities == {"Required", "Nullable", "List"}

FlagDefaults ==
    {<<>>, <<DefaultValue("Value", "Int", <<"1">>, NONE)>>,
     <<DefaultValue("Value", "Int", <<"2">>, NONE)>>, <<DefaultValue("Now", NONE, <<>>, NONE)>>}

FlagColumns ==
    {Column(n, a, "String", d, i) :
        n \in {"c", "d"}, a \in ColumnArities, d \in FlagDefaults, i \in BOOLEAN}

FlagFlavours ==
    [should_ignore_json_defaults : {FALSE}, named_constraints : {FALSE},
     column_type_change : {NONE} \cup ColumnTypeChange]

\* column pairs that differ in name, arity, default and auto-increment, under
\* flavours that classify the type change or find none
InitFlags ==
    \E p \in FlagColumns, n \in FlagColumns, f \in FlagFlavours :
        /\ cols = [previous |-> p, next |-> n]
        /\ flavour = f
        /\ column_changes = <<>>
        /\ NoEnrichState

SpecFlags == InitFlags /\ [][DifferNext]_vars

(***************************************************************************)
(* The trees enrich is called with.  The new tree is what introspection    *)
(* produces: names are unique, and so are database names (they are the     *)
(* names of tables, columns and enums of one database).  The old tree is   *)
(* what the user wrote: names are unique, database names need not be.      *)
(***************************************************************************)
MaxModels == 2

Names == {"a", "b", "c"}

OptionalNames == {NONE} \cup Names

\* every sequence over S of length lo..hi
SeqsOf(S, lo, hi) == UNION {[1..k -> S] : k \in lo..hi}

UniqueNames(s) == \A i, j \in DOMAIN s : s[i].name = s[j].name => i = j

UniqueDatabaseNames(s) ==
    \A i, j \in DOMAIN s : FinalDatabaseName(s[i]) = FinalDatabaseName(s[j]) => i = j

\* a model of nothing but its names; @@map("x") on a model named x is left out
BareModels ==
    {m \in {Model(n, d, <<>>, <<>>, <<>>) : n \in Names, d \in OptionalNames} :
        m.database_name # m.name}

NoDifferState ==
    /\ cols = <<>>
    /\ flavour = <<>>
    /\ column_changes = <<>>

EnrichCalled(old, new, c) ==
    /\ old_data_model = old
    /\ new_data_model = new
    /\ input_new = new
    /\ ctx = c
    /\ pc = "model_names"
    /\ locals = NoLocals
    /\ warnings = <<>>
    /\ call = 1
    /\ NoDifferState

Postgres == [named_constraints |-> FALSE, mysql |-> FALSE]

\* models that differ in their names and database names only
InitModels ==
    \E old_models \in SeqsOf(BareModels, 1, MaxModels),
       new_models \in SeqsOf(BareModels, 1, MaxModels) :
        /\ UniqueNames(old_models)
        /\ UniqueNames(new_models)
        /\ UniqueDatabaseNames(new_models)
        /\ EnrichCalled(Datamodel(old_models, <<>>), Datamodel(new_models, <<>>), Postgres)

SpecModels == InitModels /\ [][EnrichNext]_vars

\* models and enums in some order: the new ones as introspected (no @@map), the
\* old ones with or without a @@map to the first name
MaxOrdered == 3

OrderNames == {"a", "b", "c", "d"}

OrderedNew == {s \in SeqsOf(OrderNames, 1, MaxOrdered) : NoDuplicates(s)}

OrderedOld ==
    {s \in SeqsOf(OrderNames \X {NONE, "a"}, 1, MaxOrdered) :
        /\ NoDuplicates([i \in DOMAIN s |-> s[i][1]])
        /\ \A i \in DOMAIN s : s[i][2] # s[i][1]
        /\ \A i, j \in DOMAIN s : s[i][2] # NONE /\ s[j][2] # NONE => i = j}

InitOrder ==
    \E old \in OrderedOld, new \in OrderedNew, enums \in BOOLEAN :
        LET old_models == [i \in DOMAIN old |-> Model(old[i][1], old[i][2], <<>>, <<>>, <<>>)]
            new_models == [i \in DOMAIN new |-> Model(new[i], NONE, <<>>, <<>>, <<>>)]
            old_enums == [i \in DOMAIN old |-> Enum(old[i][1], old[i][2], <<>>)]
            new_enums == [i \in DOMAIN new |-> Enum(new[i], NONE, <<>>)]
        IN  IF enums
            THEN EnrichCalled(Datamodel(<<>>, old_enums), Datamodel(<<>>, new_enums), Postgres)
            ELSE EnrichCalled(Datamodel(old_models, <<>>), Datamodel(new_models, <<>>), Postgres)

SpecOrder == InitOrder /\ [][EnrichNext]_vars

\* a model M whose columns are in its primary key, in an index, in the
\* foreign key of its relation to a model X and in the key that X's relation
\* to M references; the old tree knows M (or M under another name) with
\* columns of its own
MaxFields == 2

ColumnNames == {"a", "b"}

NewColumns ==
    {s \in SeqsOf({ScalarField(n, d, TypeInt, NoDefault) :
                      n \in ColumnNames, d \in {NONE, "x"}}, 1, MaxFields) :
        UniqueNames(s) /\ UniqueDatabaseNames(s)}

OldColumns ==
    {s \in SeqsOf({f \in {ScalarField(n, d, TypeInt, NoDefault) :
                             n \in ColumnNames \cup {"c", "d"},
                             d \in {NONE, "a", "x"}} :
                      f.database_name # f.name}, 1, MaxFields) :
        UniqueNames(s)}

Reverse(s) == [i \in DOMAIN s |-> s[Len(s) + 1 - i]]

\* the keys over some columns: every one or two of them, in either order
KeysOver(columns) ==
    {k \in SeqsOf({columns[i].name : i \in DOMAIN columns}, 1, 2) : NoDuplicates(k)}

NewTreeOfColumns(columns, key) ==
    Datamodel(
        <<Model("M", NONE,
                columns \o
                <<RelationField("x", FALSE, RelationInfo("X", key, <<"id">>, "MToX")),
                  RelationField("xs", TRUE, RelationInfo("X", <<>>, <<>>, "XToM"))>>,
                <<IndexDefinition(NONE, "M_idx", Reverse(key))>>,
                <<PrimaryKeyDefinition(NONE, NONE, key)>>),
          Model("X", NONE,
                <<ScalarField("id", NONE, TypeInt, NoDefault),
                  ScalarField("mid", NONE, TypeInt, NoDefault),
                  RelationField("m", FALSE,
                                RelationInfo("M", <<"mid">>, Reverse(key), "XToM")),
                  RelationField("ms", TRUE, RelationInfo("M", <<>>, <<>>, "MToX"))>>,
                <<>>,
                <<PrimaryKeyDefinition(NONE, NONE, <<"id">>)>>)>>,
        <<>>)

OldTreeOfColumns(name, columns) ==
    Datamodel(<<Model(name, IF name = "M" THEN NONE ELSE "M", columns, <<>>, <<>>)>>, <<>>)

InitFields ==
    \E old_columns \in OldColumns, new_columns \in NewColumns, name \in {"M", "N"} :
        \E key \in KeysOver(new_columns) :
            EnrichCalled(OldTreeOfColumns(name, old_columns),
                         NewTreeOfColumns(new_columns, key), Postgres)

SpecFields == InitFields /\ [][EnrichNext]_vars

\* a schema with everything enrich carries over: the new tree is the database
\* as introspected; the old tree is the same schema as its author may have
\* written it, each flag of u being one thing the author did
IntrospectedTree ==
    Datamodel(
        <<Model("M", NONE,
                <<ScalarField("id", NONE, TypeInt, NoDefault),
                  ScalarField("t", NONE, TypeDateTime, NoDefault),
                  ScalarField("s", NONE, TypeString, NoDefault),
                  ScalarField("e", NONE, TypeEnum("E"), DefaultEnum("v")),
                  ScalarField("xid", NONE, TypeInt, NoDefault),
                  RelationField("x", FALSE,
                                RelationInfo("X", <<"xid">>, <<"id">>, "MToX"))>>,
                <<IndexDefinition(NONE, "M_s_idx", <<"s">>)>>,
                <<PrimaryKeyDefinition(NONE, "M_pkey", <<"id">>)>>),
          Model("X", NONE,
                <<ScalarField("id", NONE, TypeInt, NoDefault),
                  RelationField("ms", TRUE, RelationInfo("M", <<>>, <<>>, "MToX"))>>,
                <<>>,
                <<PrimaryKeyDefinition(NONE, "X_pkey", <<"id">>)>>)>>,
        <<Enum("E", NONE, <<EnumValue("v", NONE)>>)>>)

AuthoredTree(u) ==
    LET model == IF u.model_renamed THEN "N" ELSE "M"
        s == IF u.field_renamed THEN "s2" ELSE "s"
        enm == IF u.enum_renamed THEN "F" ELSE "E"
        value == IF u.enum_renamed THEN "w" ELSE "v"
        relation == IF u.relation_renamed THEN "Owns" ELSE "MToX"
    IN
    Datamodel(
        <<[Model(model, IF u.model_renamed THEN "M" ELSE NONE,
                <<ScalarField("id", NONE, TypeInt, NoDefault),
                  [ScalarField("t", NONE, TypeDateTime, NoDefault)
                      EXCEPT !.is_updated_at = u.updated_at],
                  [ScalarField(s, IF u.field_renamed THEN "s" ELSE NONE, TypeString,
                               IF u.cuid THEN DefaultCuid ELSE NoDefault)
                      EXCEPT !.is_ignored = u.field_ignored],
                  ScalarField("e", NONE, TypeEnum(enm), DefaultEnum(value)),
                  ScalarField("xid", NONE, TypeInt, NoDefault),
                  RelationField(IF u.relation_renamed THEN "owner" ELSE "x", FALSE,
                                RelationInfo("X", <<"xid">>, <<"id">>, relation))>>,
                <<IndexDefinition(IF u.index_named THEN "by_s" ELSE NONE,
                                  "M_s_idx", <<s>>)>>,
                <<PrimaryKeyDefinition(IF u.primary_key_named THEN "pk" ELSE NONE,
                                       "M_pkey", <<"id">>)>>)
              EXCEPT !.is_ignored = u.model_ignored],
          Model("X", NONE,
                <<ScalarField("id", NONE, TypeInt, NoDefault),
                  RelationField("ms", TRUE, RelationInfo(model, <<>>, <<>>, relation))>>,
                <<>>,
                <<PrimaryKeyDefinition(NONE, "X_pkey", <<"id">>)>>)>>,
        <<Enum(enm, IF u.enum_renamed THEN "E" ELSE NONE,
               <<EnumValue(value, IF u.enum_renamed THEN "v" ELSE NONE)>>)>>)

Authorings ==
    [model_renamed : BOOLEAN, model_ignored : BOOLEAN, updated_at : BOOLEAN,
     field_renamed : BOOLEAN, field_ignored : BOOLEAN, cuid : BOOLEAN,
     enum_renamed : BOOLEAN, relation_renamed : BOOLEAN,
     index_named : BOOLEAN, primary_key_named : BOOLEAN]

InitCarried ==
    \E u \in Authorings, named_constraints \in BOOLEAN :
        EnrichCalled(AuthoredTree(u), IntrospectedTree,
                     [named_constraints |-> named_constraints, mysql |-> FALSE])

SpecCarried == InitCarried /\ [][EnrichNext]_vars

\* two models M and X and up to four relations: M to M many-to-many, M to X
\* many-to-many, M to X one-to-many, M to M one-to-many.  A tree has each
\* relation or not; "plain" is the relation as introspected, "fields" has
\* relation field names of the author's, "all" a relation name of the author's
\* too
RelationIds == {"self_mn", "mn", "one", "tree"}

Named(how, introspected, authored) == IF how = "plain" THEN introspected ELSE authored

NamedRelation(how, introspected, authored) == IF how = "all" THEN authored ELSE introspected

RelationFieldsOfM(c) ==
       (IF c["self_mn"] = "absent" THEN <<>>
        ELSE <<RelationField(Named(c["self_mn"], "M_A", "friends"), TRUE,
                   RelationInfo("M", <<>>, <<>>,
                                NamedRelation(c["self_mn"], "MToM", "Friends"))),
               RelationField(Named(c["self_mn"], "M_B", "friendOf"), TRUE,
                   RelationInfo("M", <<>>, <<>>,
                                NamedRelation(c["self_mn"], "MToM", "Friends")))>>)
    \o (IF c["mn"] = "absent" THEN <<>>
        ELSE <<RelationField(Named(c["mn"], "X", "tags"), TRUE,
                   RelationInfo("X", <<>>, <<>>,
                                NamedRelation(c["mn"], "MToX", "Tags")))>>)
    \o (IF c["one"] = "absent" THEN <<>>
        ELSE <<RelationField(Named(c["one"], "X_xid", "owner"), FALSE,
                   RelationInfo("X", <<"xid">>, <<"id">>,
                                NamedRelation(c["one"], "M_xidToX", "Owns")))>>)
    \o (IF c["tree"] = "absent" THEN <<>>
        ELSE <<RelationField(Named(c["tree"], "M", "parent"), FALSE,
                   RelationInfo("M", <<"pid">>, <<"id">>,
                                NamedRelation(c["tree"], "MToM_pid", "Tree"))),
               RelationField(Named(c["tree"], "other_M", "children"), TRUE,
                   RelationInfo("M", <<>>, <<>>,
                                NamedRelation(c["tree"], "MToM_pid", "Tree")))>>)

RelationFieldsOfX(c) ==
       (IF c["mn"] = "absent" THEN <<>>
        ELSE <<RelationField(Named(c["mn"], "M", "posts"), TRUE,
                   RelationInfo("M", <<>>, <<>>,
                                NamedRelation(c["mn"], "MToX", "Tags")))>>)
    \o (IF c["one"] = "absent" THEN <<>>
        ELSE <<RelationField(Named(c["one"], "M_xid", "owned"), TRUE,
                   RelationInfo("M", <<>>, <<>>,
                                NamedRelation(c["one"], "M_xidToX", "Owns")))>>)

TreeOfRelations(c) ==
    Datamodel(
        <<Model("M", NONE,
                <<ScalarField("id", NONE, TypeInt, NoDefault),
                  ScalarField("xid", NONE, TypeInt, NoDefault),
                  ScalarField("pid", NONE, TypeInt, NoDefault)>> \o RelationFieldsOfM(c),
                <<>>, <<PrimaryKeyDefinition(NONE, NONE, <<"id">>)>>),
          Model("X", NONE,
                <<ScalarField("id", NONE, TypeInt, NoDefault)>> \o RelationFieldsOfX(c),
                <<>>, <<PrimaryKeyDefinition(NONE, NONE, <<"id">>)>>)>>,
        <<>>)

IntrospectedRelations ==
    {c \in [RelationIds -> {"absent", "plain"}] : \E r \in RelationIds : c[r] # "absent"}

AuthoredRelations ==
    {c \in [RelationIds -> {"absent", "plain", "fields", "all"}] :
        \E r \in RelationIds : c[r] # "absent"}

InitRelations ==
    \E old \in AuthoredRelations, new \in IntrospectedRelations :
        EnrichCalled(TreeOfRelations(old), TreeOfRelations(new), Postgres)

SpecRelations == InitRelations /\ [][EnrichNext]_vars

\* enums and the fields of a model M typed by them.  The new tree is as
\* introspected: enums e1 and perhaps e2 without @@map, values v and perhaps w
\* without @map, a field f1 of type e1 and perhaps a field f2 of the type of the
\* last enum.  The old tree has one or two enums under the author's names, and
\* f1 typed by one of them.  On MySQL every new enum is the enum of one column.
NewValueLists ==
    {<<EnumValue("v", NONE)>>, <<EnumValue("v", NONE), EnumValue("w", NONE)>>}

OldValueLists ==
    {<<EnumValue("v", NONE)>>, <<EnumValue("u", "v")>>,
     <<EnumValue("v", NONE), EnumValue("w", NONE)>>,
     <<EnumValue("u", "v"), EnumValue("w", NONE)>>}

NewEnumLists ==
    {<<Enum("e1", NONE, values)>> : values \in NewValueLists}
    \cup {<<Enum("e1", NONE, values), Enum("e2", NONE, <<EnumValue("v", NONE)>>)>> :
             values \in NewValueLists}

OldEnumLists ==
    LET first == {Enum(n[1], n[2], values) :
                     n \in {<<"e1", NONE>>, <<"A", "e1">>, <<"A", NONE>>},
                     values \in OldValueLists}
        second == {Enum("B", d, values) :
                      d \in {NONE, "e1", "e2"},
                      values \in {<<EnumValue("v", NONE)>>, <<EnumValue("u", "v")>>}}
    IN {<<e>> : e \in first} \cup {<<e, f>> : e \in first, f \in second}

ModelOfEnumFields(fields) ==
    Model("M", NONE, fields, <<>>, <<>>)

InitEnums ==
    \E old_enums \in OldEnumLists, new_enums \in NewEnumLists,
       default \in {NoDefault, DefaultEnum("v")}, two_fields \in BOOLEAN,
       mysql \in BOOLEAN :
        \E old_type \in {old_enums[i].name : i \in DOMAIN old_enums} :
            LET f1 == ScalarField("f1", NONE, TypeEnum("e1"), default)
                f2 == ScalarField("f2", NONE, TypeEnum(new_enums[Len(new_enums)].name),
                                  DefaultEnum("v"))
            IN
            /\ mysql => (two_fields <=> Len(new_enums) = 2)
            /\ EnrichCalled(
                  Datamodel(<<ModelOfEnumFields(
                                 <<ScalarField("f1", NONE, TypeEnum(old_type), NoDefault)>>)>>,
                            old_enums),
                  Datamodel(<<ModelOfEnumFields(
                                 IF two_fields THEN <<f1, f2>> ELSE <<f1>>)>>,
                            new_enums),
                  [named_constraints |-> FALSE, mysql |-> mysql])

SpecEnums == InitEnums /\ [][EnrichNext]_vars

\* unusual inputs: an index without a database name on either side, two
\* relations of the old tree over one foreign key, two models, fields, enums or
\* enum values of the old tree mapped to one database name, two models of the
\* new tree of one database name.  u says which of them a pair of trees has.
UnusualNewTree(u) ==
    Datamodel(
        <<Model("M", NONE,
                <<ScalarField("id", NONE, TypeInt, NoDefault),
                  ScalarField("s", NONE, TypeString, NoDefault),
                  ScalarField("e", NONE, TypeEnum("E"), DefaultEnum("v")),
                  ScalarField("xid", NONE, TypeInt, NoDefault),
                  RelationField("x", FALSE,
                                RelationInfo("X", <<"xid">>, <<"id">>, "MToX"))>>,
                <<IndexDefinition(NONE, u.new_index_db_name, <<"s">>)>>,
                <<PrimaryKeyDefinition(NONE, "M_pkey", <<"id">>)>>),
          Model("X", NONE,
                <<ScalarField("id", NONE, TypeInt, NoDefault),
                  RelationField("ms", TRUE, RelationInfo("M", <<>>, <<>>, "MToX"))>>,
                <<>>,
                <<PrimaryKeyDefinition(NONE, "X_pkey", <<"id">>)>>)>>
        \o (IF u.new_twin THEN <<Model("M2", "M", <<>>, <<>>, <<>>)>> ELSE <<>>),
        <<Enum("E", NONE, <<EnumValue("v", NONE)>>)>>)

UnusualOldTree(u) ==
    LET model == IF u.two_models THEN "N" ELSE "M"
        enm == IF u.two_enums THEN "F" ELSE "E"
        value == IF u.two_values THEN "w" ELSE "v"
    IN
    Datamodel(
        <<Model(model, IF u.two_models THEN "M" ELSE NONE,
                <<ScalarField("id", NONE, TypeInt, NoDefault)>>
                \o (IF u.two_fields
                    THEN <<ScalarField("s1", "s", TypeString, NoDefault),
                           ScalarField("s2", "s", TypeString, NoDefault)>>
                    ELSE <<ScalarField("s", NONE, TypeString, NoDefault)>>)
                \o <<ScalarField("e", NONE, TypeEnum(enm), DefaultEnum(value)),
                     ScalarField("xid", NONE, TypeInt, NoDefault),
                     RelationField(u.first_relation_field, FALSE,
                                   RelationInfo("X", <<"xid">>, <<"id">>, "MToX"))>>
                \o (IF u.two_relations
                    THEN <<RelationField("keeper", FALSE,
                                         RelationInfo("X", <<"xid">>, <<"id">>, "Keeps"))>>
                    ELSE <<>>),
                <<IndexDefinition("by_s", u.old_index_db_name,
                                  <<IF u.two_fields THEN "s1" ELSE "s">>)>>,
                <<PrimaryKeyDefinition(NONE, "M_pkey", <<"id">>)>>)>>
        \o (IF u.two_models THEN <<Model("P", "M", <<>>, <<>>, <<>>)>> ELSE <<>>)
        \o <<Model("X", NONE,
                <<ScalarField("id", NONE, TypeInt, NoDefault),
                  RelationField("ms", TRUE, RelationInfo(model, <<>>, <<>>, "MToX"))>>
                \o (IF u.two_relations
                    THEN <<RelationField("kept", TRUE,
                                         RelationInfo(model, <<>>, <<>>, "Keeps"))>>
                    ELSE <<>>),
                <<>>,
                <<PrimaryKeyDefinition(NONE, "X_pkey", <<"id">>)>>)>>,
        <<Enum(enm, IF u.two_enums THEN "E" ELSE NONE,
               <<EnumValue(value, IF u.two_values THEN "v" ELSE NONE)>>
               \o (IF u.two_values THEN <<EnumValue("z", "v")>> ELSE <<>>))>>
        \o (IF u.two_enums
            THEN <<Enum("G", "E", <<EnumValue("v", NONE)>>)>>
            ELSE <<>>))

Unusuals ==
    [new_index_db_name : {NONE, "M_s_idx"}, old_index_db_name : {NONE, "M_s_idx"},
     first_relation_field : {"x", "owner"}, two_relations : BOOLEAN,
     two_models : BOOLEAN, two_fields : BOOLEAN, two_enums : BOOLEAN,
     two_values : BOOLEAN, new_twin : BOOLEAN]

InitUnusual ==
    \E u \in Unusuals, named_constraints \in BOOLEAN, mysql \in BOOLEAN :
        EnrichCalled(UnusualOldTree(u), UnusualNewTree(u),
                     [named_constraints |-> named_constraints, mysql |-> mysql])

SpecUnusual == InitUnusual /\ [][EnrichNext]_vars

\* a model M with one field f beside its id.  The new field is as introspected:
\* a string, a timestamp or an integer, with the default of its column or
\* none.  The old field is as authored: of that name or another, with a cuid,
\* a uuid, a now() default or none, with @updatedAt or not.
DefaultText == [kind |-> "Single(String)", value |-> "x"]

NewPrismaLevelFields ==
    {ScalarField("f", NONE, t, d) :
        t \in {TypeString, TypeDateTime, TypeInt}, d \in {NoDefault, DefaultNow, DefaultText}}

OldPrismaLevelFields ==
    {[ScalarField(n, NONE, t, d) EXCEPT !.is_updated_at = u] :
        n \in {"f", "g"}, t \in {TypeString, TypeDateTime},
        d \in {NoDefault, DefaultCuid, DefaultUuid, DefaultNow}, u \in BOOLEAN}

TreeOfField(field) ==
    Datamodel(<<Model("M", NONE,
                      <<ScalarField("id", NONE, TypeInt, NoDefault), field>>,
                      <<>>,
                      <<PrimaryKeyDefinition(NONE, "M_pkey", <<"id">>)>>)>>,
              <<>>)

InitPrismaLevel ==
    \E old_field \in OldPrismaLevelFields, new_field \in NewPrismaLevelFields :
        EnrichCalled(TreeOfField(old_field), TreeOfField(new_field), Postgres)

SpecPrismaLevel == InitPrismaLevel /\ [][EnrichNext]_vars

\* a model M with one field or none and an enum E with one value or none.  In
\* the old tree each of them is documented or not, and the field and the value
\* have the names of the new tree's or others; in the new tree the model and
\* the enum are documented or not.
Documentations(text) == {NONE, text}

DocumentedTree(model_doc, fields, enum_doc, values) ==
    Datamodel(<<[Model("M", NONE, fields, <<>>, <<>>) EXCEPT !.documentation = model_doc]>>,
              <<[Enum("E", NONE, values) EXCEPT !.documentation = enum_doc]>>)

NewDocumentedTrees ==
    {DocumentedTree(md, fs, ed, vs) :
        md \in Documentations("new"), ed \in Documentations("new"),
        fs \in {<<>>, <<ScalarField("f", NONE, TypeInt, NoDefault)>>},
        vs \in {<<>>, <<EnumValue("v", NONE)>>}}

OldDocumentedTrees ==
    {DocumentedTree(md,
                    <<[ScalarField(f, NONE, TypeInt, NoDefault) EXCEPT !.documentation = fd]>>,
                    ed,
                    <<[EnumValue(v, NONE) EXCEPT !.documentation = vd]>>) :
        md \in Documentations("old"), ed \in Documentations("old"),
        fd \in Documentations("old"), vd \in Documentations("old"),
        f \in {"f", "g"}, v \in {"v", "w"}}

InitComments ==
    \E old \in OldDocumentedTrees, new \in NewDocumentedTrees :
        EnrichCalled(old, new, Postgres)

SpecComments == InitComments /\ [][EnrichNext]_vars

\* a model M with columns a and b, a primary key over both and one or two
\* indexes.  The new tree is as introspected: the key has its database name
\* or none, the indexes have theirs.  In the old tree the author may have
\* renamed a, the key is over a and b in either order or over a alone, it has
\* a database name or not and a name or not, and the indexes have names or not.
KeyedTree(a, key, indices) ==
    Datamodel(<<Model("M", NONE,
                      <<ScalarField(a, IF a = "a" THEN NONE ELSE "a", TypeInt, NoDefault),
                        ScalarField("b", NONE, TypeInt, NoDefault)>>,
                      indices, <<key>>)>>,
              <<>>)

NewKeys == {PrimaryKeyDefinition(NONE, d, <<"a", "b">>) : d \in {NONE, "M_pkey"}}

OldKeys(a) ==
    {PrimaryKeyDefinition(n, d, fs) :
        n \in {NONE, "pk"}, d \in {NONE, "M_pkey", "K"},
        fs \in {<<a, "b">>, <<"b", a>>, <<a>>}}

NewIndexLists ==
    {<<IndexDefinition(NONE, "i1", <<"b">>)>>,
     <<IndexDefinition(NONE, "i1", <<"b">>), IndexDefinition(NONE, "i2", <<"b">>)>>}

OldIndexLists ==
    {<<>>}
    \cup {<<IndexDefinition(n, "i1", <<"b">>)>> : n \in {NONE, "by_b"}}
    \cup {<<IndexDefinition("other", "i2", <<"b">>), IndexDefinition(n, "i1", <<"b">>)>> :
             n \in {NONE, "by_b"}}

InitKeys ==
    \E a \in {"a", "a2"}, named_constraints \in BOOLEAN :
        \E old_key \in OldKeys(a), new_key \in NewKeys,
           old_indices \in OldIndexLists, new_indices \in NewIndexLists :
            EnrichCalled(KeyedTree(a, old_key, old_indices),
                         KeyedTree("a", new_key, new_indices),
                         [named_constraints |-> named_constraints, mysql |-> FALSE])

SpecKeys == InitKeys /\ [][EnrichNext]_vars

\* a model M with two foreign keys to X.  The new tree is as introspected:
\* the relation fields of M are a (over x1id) and b (over x2id), in either
\* order.  In the old tree the author has named the first a, b or c and the
\* second by another of these names, or the second relation is not there yet;
\* the author may have named the first relation too.
ChainedTree(first, second, first_relation, reversed) ==
    LET f1 == <<RelationField(first, FALSE,
                              RelationInfo("X", <<"x1id">>, <<"id">>, first_relation))>>
        f2 == IF second = NONE THEN <<>>
              ELSE <<RelationField(second, FALSE,
                                   RelationInfo("X", <<"x2id">>, <<"id">>, "R2"))>>
    IN
    Datamodel(
        <<Model("M", NONE,
                <<ScalarField("id", NONE, TypeInt, NoDefault),
                  ScalarField("x1id", NONE, TypeInt, NoDefault),
                  ScalarField("x2id", NONE, TypeInt, NoDefault)>>
                \o (IF reversed THEN f2 \o f1 ELSE f1 \o f2),
                <<>>,
                <<PrimaryKeyDefinition(NONE, "M_pkey", <<"id">>)>>),
          Model("X", NONE,
                <<ScalarField("id", NONE, TypeInt, NoDefault),
                  RelationField("ms1", TRUE, RelationInfo("M", <<>>, <<>>, first_relation))>>
                \o (IF second = NONE THEN <<>>
                    ELSE <<RelationField("ms2", TRUE, RelationInfo("M", <<>>, <<>>, "R2"))>>),
                <<>>,
                <<PrimaryKeyDefinition(NONE, "X_pkey", <<"id">>)>>)>>,
        <<>>)

ChainNames == {"a", "b", "c"}

InitChains ==
    \E first \in ChainNames, second \in {NONE} \cup ChainNames,
       first_relation \in {"R1", "Q1"}, reversed \in BOOLEAN :
        /\ first # second
        /\ EnrichCalled(ChainedTree(first, second, first_relation, FALSE),
                        ChainedTree("a", "b", "R1", reversed), Postgres)

SpecChains == InitChains /\ [][EnrichNext]_vars

\* enums of MySQL columns.  The new tree is as introspected: model M with the
\* columns f1 of enum e1 and f2 of enum e2, and perhaps a further field f3 of
\* enum e1.  The old tree has the author's enums, the first named A or e2 and
\* the second B, and types the same fields by them, f3 as f1.
MysqlEnumTree(names, second_values, t1, t2, shared) ==
    Datamodel(
        <<ModelOfEnumFields(
              <<ScalarField("f1", NONE, TypeEnum(t1), NoDefault),
                ScalarField("f2", NONE, TypeEnum(t2), NoDefault)>>
              \o (IF shared THEN <<ScalarField("f3", NONE, TypeEnum(t1), NoDefault)>>
                  ELSE <<>>))>>,
        <<Enum(names[1], NONE, <<EnumValue("v", NONE)>>),
          Enum(names[2], NONE, second_values)>>)

InitMysqlEnums ==
    \E first \in {"A", "e2"}, shared \in BOOLEAN, mysql \in BOOLEAN,
       new_values \in NewValueLists, old_values \in NewValueLists :
        \E t1 \in {first, "B"}, t2 \in {first, "B"} :
            EnrichCalled(
                MysqlEnumTree(<<first, "B">>, old_values, t1, t2, shared),
                MysqlEnumTree(<<"e1", "e2">>, new_values, "e1", "e2", shared),
                [named_constraints |-> FALSE, mysql |-> mysql])

SpecMysqlEnums == InitMysqlEnums /\ [][EnrichNext]_vars

\* ignored models and fields.  Both trees have the models M, with the fields
\* id and s, and X; g says which of them are ignored.  The new tree is as
\* introspected, where a model without a usable key or a field of an
\* unsupported type comes ignored.  The old tree may name M and s otherwise,
\* and may list X first.
IgnoredTree(g, model, s, reversed) ==
    LET m == [Model(model, IF model = "M" THEN NONE ELSE "M",
                    <<[ScalarField("id", NONE, TypeInt, NoDefault)
                          EXCEPT !.is_ignored = g.id],
                      [ScalarField(s, IF s = "s" THEN NONE ELSE "s", TypeString, NoDefault)
                          EXCEPT !.is_ignored = g.s]>>,
                    <<>>, <<>>)
                 EXCEPT !.is_ignored = g.m]
        x == [Model("X", NONE, <<ScalarField("id", NONE, TypeInt, NoDefault)>>,
                    <<>>, <<>>)
                 EXCEPT !.is_ignored = g.x]
    IN Datamodel(IF reversed THEN <<x, m>> ELSE <<m, x>>, <<>>)

Ignorings == [m : BOOLEAN, x : BOOLEAN, id : BOOLEAN, s : BOOLEAN]

InitIgnores ==
    \E old_g \in Ignorings, new_g \in Ignorings, model \in {"M", "N"},
       s \in {"s", "s2"}, reversed \in BOOLEAN :
        EnrichCalled(IgnoredTree(old_g, model, s, reversed),
                     IgnoredTree(new_g, "M", "s", FALSE), Postgres)

SpecIgnores == InitIgnores /\ [][EnrichNext]_vars

(***************************************************************************)
(* Properties of enrich.  Returned(n) is the state in which the n-th call  *)
(* has returned; input_new is the new tree as that call received it.       *)
(***************************************************************************)
Returned(n) == pc = "done" /\ call = n

\* the models of a tree that carry a database name / a name
ModelsOfDatabaseName(dm, d) == {i \in DOMAIN dm.models : FinalDatabaseName(dm.models[i]) = d}

ModelsNamed(dm, n) == {i \in DOMAIN dm.models : dm.models[i].name = n}

\* the precondition of name stability for the old model at oi: exactly one new
\* model has its database name, and no other new model is named like it
StableModel(old, new, oi) ==
    LET hits == ModelsOfDatabaseName(new, FinalDatabaseName(old.models[oi])) IN
    /\ Cardinality(hits) = 1
    /\ ModelsNamed(new, old.models[oi].name) \subseteq hits

\* the new model of the old model's database name is named like the old model
CarriesOldName(old, new, oi) ==
    \A i \in ModelsOfDatabaseName(new, FinalDatabaseName(old.models[oi])) :
        new.models[i].name = old.models[oi].name

\* C1, as claimed: for every old model M with database name D (explicit, else
\* its own name), if exactly one new model has database name D and no other
\* new model is named like M, that new model is named like M after enrich.
C1_NameStability ==
    Returned(1) =>
        \A oi \in DOMAIN old_data_model.models :
            StableModel(old_data_model, input_new, oi)
                => CarriesOldName(old_data_model, new_data_model, oi)

\* C1, amended: the same for every old model M that is the first old model of
\* its database name.
C1_NameStabilityOfFirst ==
    Returned(1) =>
        \A oi \in DOMAIN old_data_model.models :
            /\ StableModel(old_data_model, input_new, oi)
            /\ FindModelDbName(old_data_model, FinalDatabaseName(old_data_model.models[oi])) = oi
            => CarriesOldName(old_data_model, new_data_model, oi)

\* a call that renamed a model to the name of the first old model of its
\* database name, while a second old model has the same database name
C1_Witness ==
    /\ Returned(1)
    /\ locals.changed_model_names # <<>>
    /\ \E oi, oj \in DOMAIN old_data_model.models :
          /\ oi < oj
          /\ FinalDatabaseName(old_data_model.models[oi])
                = FinalDatabaseName(old_data_model.models[oj])
          /\ StableModel(old_data_model, input_new, oi)
          /\ \E i \in DOMAIN input_new.models :
                /\ FinalDatabaseName(input_new.models[i])
                      = FinalDatabaseName(old_data_model.models[oi])
                /\ input_new.models[i].name # old_data_model.models[oi].name

\* the order of lines 511-525 on a sorted sequence, Idx giving an element's
\* position in the old tree (0: not there) and before the sequence as it was
OldOrderRestored(before, sorted, Idx(_)) ==
    \* the same elements
    /\ Len(sorted) = Len(before)
    /\ \A x \in Range(before) : x \in Range(sorted)
    \* (a) those of the old tree, in the old tree's order
    /\ \A i, j \in DOMAIN sorted :
          i < j /\ Idx(sorted[i]) # 0 /\ Idx(sorted[j]) # 0 => Idx(sorted[i]) <= Idx(sorted[j])
    \* (b) the others behind them
    /\ \A i, j \in DOMAIN sorted : i < j /\ Idx(sorted[i]) = 0 => Idx(sorted[j]) = 0
    \* (c) the others in the order they had
    /\ \A i, j \in DOMAIN sorted :
          i < j /\ Idx(sorted[i]) = 0 /\ Idx(sorted[j]) = 0
          => \E k, l \in DOMAIN before : k < l /\ before[k] = sorted[i] /\ before[l] = sorted[j]

\* C3: the sort of lines 511-525 leaves the models so that those whose name is
\* in the old tree are in the old tree's order, those whose name is not come
\* behind them, and these keep the order they had before the sort; the same
\* for the enums.
C3_OrderRestoration ==
    [][pc = "order" =>
          /\ OldOrderRestored(new_data_model.models, new_data_model'.models,
                              LAMBDA m : FindModel(old_data_model, m.name))
          /\ OldOrderRestored(new_data_model.enums, new_data_model'.enums,
                              LAMBDA e : FindEnum(old_data_model, e.name))]_vars

\* a call whose sort moved a model of the old tree in front of two models that
\* are not of the old tree, renamed models among them
C3_Witness ==
    /\ pc = "warnings" /\ call = 1
    /\ \E i, j, k \in DOMAIN new_data_model.models :
          /\ i < j /\ j < k
          /\ FindModel(old_data_model, new_data_model.models[i].name) # 0
          /\ FindModel(old_data_model, new_data_model.models[j].name) = 0
          /\ FindModel(old_data_model, new_data_model.models[k].name) = 0
          /\ new_data_model.models[i].database_name # NONE
          /\ FinalDatabaseName(input_new.models[1])
                = FinalDatabaseName(new_data_model.models[j])

(***************************************************************************)
(* Properties of the column differ.  Diffed is the state in which          *)
(* all_changes has returned; Equivalent says that it left the Default flag *)
(* unset, which is defaults_match returning true.                          *)
(***************************************************************************)
Diffed == cols # <<>> /\ column_changes # <<>>

Equivalent == ~default_changed(column_changes[1])

Kinds(p, n) == KindOf(cols.previous.default) = p /\ KindOf(cols.next.default) = n

SameValue ==
    /\ Kinds("Value", "Value")
    /\ cols.previous.default[1].type = cols.next.default[1].type
    /\ cols.previous.default[1].text = cols.next.default[1].text

SameTextIgnoringCase ==
    /\ Kinds("DbGenerated", "DbGenerated")
    /\ ToLowercase(cols.previous.default[1].text) = ToLowercase(cols.next.default[1].text)

\* the constraint names do not stand in the way: the feature is off, or they
\* are equal (no name equal to no name only)
ConstraintNamesAgree ==
    \/ ~flavour.named_constraints
    \/ ConstraintNameOf(cols.previous.default) = ConstraintNameOf(cols.next.default)

\* the flavour ignores JSON defaults and one of the two columns is a JSON column
JsonRuleApplies ==
    /\ flavour.should_ignore_json_defaults
    /\ cols.previous.family = "Json" \/ cols.next.family = "Json"

\* C8, as claimed: Now/Now, Value/Value of one value and DbGenerated/
\* DbGenerated of one text (ignoring case) are equivalent, and Value/absent,
\* absent/Now and Now/Value are not, for every column pair and every flavour.
C8_Directionality ==
    Diffed =>
        /\ Kinds("Now", "Now") => Equivalent
        /\ SameValue => Equivalent
        /\ SameTextIgnoringCase => Equivalent
        /\ Kinds("Value", "None") => ~Equivalent
        /\ Kinds("None", "Now") => ~Equivalent
        /\ Kinds("Now", "Value") => ~Equivalent

\* C8, amended: Now/Now is equivalent always; Value/Value of one value and
\* DbGenerated/DbGenerated of one text (ignoring case) are equivalent when the
\* constraint names agree or the JSON rule applies; Value/absent, absent/Now
\* and Now/Value are not equivalent unless the JSON rule applies.
C8_DirectionalityGated ==
    Diffed =>
        /\ Kinds("Now", "Now") => Equivalent
        /\ SameValue /\ (ConstraintNamesAgree \/ JsonRuleApplies) => Equivalent
        /\ SameTextIgnoringCase /\ (ConstraintNamesAgree \/ JsonRuleApplies) => Equivalent
        /\ Kinds("Value", "None") /\ ~JsonRuleApplies => ~Equivalent
        /\ Kinds("None", "Now") /\ ~JsonRuleApplies => ~Equivalent
        /\ Kinds("Now", "Value") /\ ~JsonRuleApplies => ~Equivalent

\* two database generated defaults whose texts differ in case only, under one
\* constraint name with the feature on and no JSON rule, found equivalent
C8_Witness ==
    /\ Diffed
    /\ SameTextIgnoringCase
    /\ cols.previous.default[1].text # cols.next.default[1].text
    /\ flavour.named_constraints
    /\ ConstraintNameOf(cols.previous.default) = "c1"
    /\ ConstraintNameOf(cols.next.default) = "c1"
    /\ ~flavour.should_ignore_json_defaults
    /\ Equivalent

\* a pair that one of the branches C9 lists handles
GatedBranch ==
    \/ Kinds("Value", "Value")
    \/ Kinds("Now", "Now")
    \/ Kinds("DbGenerated", "DbGenerated")
    \/ Kinds("Sequence", "None")
    \/ KindOf(cols.next.default) = "Sequence"
    \/ Kinds("None", "None")

\* C9: with the named constraints feature on, a pair of one of the listed
\* branches is equivalent only if the two constraint names are equal; with
\* the feature off the constraint names do not change the result.
C9_NamedConstraintGating ==
    Diffed /\ ~JsonRuleApplies =>
        /\ flavour.named_constraints /\ GatedBranch /\ Equivalent
              => ConstraintNameOf(cols.previous.default) = ConstraintNameOf(cols.next.default)
        /\ ~flavour.named_constraints =>
              \A pn, nn \in DefaultConstraintNames :
                 LET renamed(d, x) == IF d = <<>> THEN d
                                      ELSE <<[d[1] EXCEPT !.constraint_name = x]>>
                     c == [previous |-> [cols.previous EXCEPT !.default = renamed(@, pn)],
                           next |-> [cols.next EXCEPT !.default = renamed(@, nn)]]
                 IN default_changed(all_changes(c, flavour)) = ~Equivalent

\* C10: if the flavour ignores JSON defaults and the previous or the next
\* column is a JSON column, the defaults are equivalent and Default is not
\* set, whatever the defaults are; otherwise the result is the one the same
\* pair gets from a flavour that does not ignore JSON defaults.
C10_JsonIgnorePrecedence ==
    Diffed =>
        /\ JsonRuleApplies => Equivalent /\ "Default" \notin column_changes[1].changes
        /\ ~JsonRuleApplies =>
              Equivalent =
                 ~default_changed(all_changes(cols,
                      [flavour EXCEPT !.should_ignore_json_defaults = FALSE]))

\* a Value default dropped from a JSON column under another constraint name,
\* found equivalent because the flavour ignores JSON defaults
C10_Witness ==
    /\ Diffed
    /\ JsonRuleApplies
    /\ cols.previous.family # "Json"
    /\ Kinds("Value", "None")
    /\ flavour.named_constraints
    /\ ConstraintNameOf(cols.previous.default) = "c1"
    /\ Equivalent

\* the model of the tree as enrich received it that the model at mi of the tree
\* as it is now was: the one of its database name, which enrich does not change
InputModel(mi) ==
    input_new.models[CHOOSE i \in DOMAIN input_new.models :
        FinalDatabaseName(input_new.models[i]) = FinalDatabaseName(new_data_model.models[mi])]

\* every f in the list before is g now, at the same position
Replaced(before, now, f, g) ==
    /\ Len(now) = Len(before)
    /\ \A k \in DOMAIN before : before[k] = f => now[k] = g

\* the scalar field at fi of the model at mi was renamed by this call
RenamedField(mi, fi) ==
    /\ IsScalar(new_data_model.models[mi].fields[fi])
    /\ InputModel(mi).fields[fi].name # new_data_model.models[mi].fields[fi].name

\* what C5 says of the scalar field at fi of the model at mi, renamed f to g
RenamePropagated(mi, fi) ==
    LET before == InputModel(mi)
        now == new_data_model.models[mi]
        f == before.fields[fi].name
        g == now.fields[fi].name
    IN
    /\ now.fields[fi].database_name =
          IF before.fields[fi].database_name = NONE THEN f
          ELSE before.fields[fi].database_name
    /\ \A k \in DOMAIN now.primary_key :
          Replaced(before.primary_key[k].fields, now.primary_key[k].fields, f, g)
    /\ \A k \in DOMAIN now.indices :
          Replaced(before.indices[k].fields, now.indices[k].fields, f, g)
    /\ \A k \in DOMAIN now.fields :
          IsRelation(now.fields[k]) =>
             Replaced(before.fields[k].relation_info.fields,
                      now.fields[k].relation_info.fields, f, g)
    /\ \A xi \in DOMAIN new_data_model.models :
          \A k \in DOMAIN new_data_model.models[xi].fields :
             LET rf == new_data_model.models[xi].fields[k] IN
             IsRelation(rf) /\ rf.relation_info.to = now.name =>
                Replaced(InputModel(xi).fields[k].relation_info.references,
                         rf.relation_info.references, f, g)

\* C5: every scalar field that enrich renames from f to g has f as its database
\* name if it had none (and the one it had otherwise), and every f in its
\* model's primary key, indexes and relation fields' owning fields, and in the
\* referenced fields of every relation field pointing to its model, is g.
C5_FieldRenamePropagation ==
    Returned(1) =>
        \A mi \in DOMAIN new_data_model.models :
            \A fi \in DOMAIN new_data_model.models[mi].fields :
                RenamedField(mi, fi) => RenamePropagated(mi, fi)

\* two fields of a renamed model renamed at once, one with a database name of
\* its own, both in the key
C5_Witness ==
    /\ Returned(1)
    /\ Len(locals.changed_scalar_field_names) = 2
    /\ locals.changed_model_names # <<>>
    /\ \E mi \in DOMAIN new_data_model.models :
          /\ \E fi \in DOMAIN new_data_model.models[mi].fields :
                RenamedField(mi, fi) /\ InputModel(mi).fields[fi].database_name # NONE
          /\ Len(new_data_model.models[mi].primary_key[1].fields) = 2
          /\ new_data_model.models[mi].primary_key[1].fields
                # InputModel(mi).primary_key[1].fields

\* the names of the models and their fields, and of the enums and their values
NamesOf(dm) ==
    [models |-> [i \in DOMAIN dm.models |->
                    [name |-> dm.models[i].name,
                     fields |-> [k \in DOMAIN dm.models[i].fields |->
                                    dm.models[i].fields[k].name]]],
     enums |-> [i \in DOMAIN dm.enums |->
                    [name |-> dm.enums[i].name,
                     values |-> [k \in DOMAIN dm.enums[i].values |->
                                    dm.enums[i].values[k].name]]]]

WarningCodes == {warnings[i].code : i \in DOMAIN warnings}

\* every field of every model of a tree
AllFields(dm) ==
    UNION {{dm.models[i].fields[k] : k \in DOMAIN dm.models[i].fields} :
              i \in DOMAIN dm.models}

\* the warnings of what a tree carries by itself: its ignored models and
\* fields, its auto-update timestamps, and its named indexes and primary keys
\* where constraints are named
CarriedCodes(dm, c) ==
         (IF \E i \in DOMAIN dm.models : dm.models[i].is_ignored
          THEN {"warning_enriched_models_with_ignore"} ELSE {})
    \cup (IF \E f \in AllFields(dm) :
                IsScalar(f) /\ f.is_ignored
          THEN {"warning_enriched_fields_with_ignore"} ELSE {})
    \cup (IF \E f \in AllFields(dm) :
                IsScalar(f) /\ f.is_updated_at /\ f.field_type = TypeDateTime
          THEN {"warning_enriched_with_updated_at"} ELSE {})
    \cup (IF c.named_constraints
             /\ \E i \in DOMAIN dm.models :
                   \E k \in DOMAIN dm.models[i].indices : dm.models[i].indices[k].name # NONE
          THEN {"warning_enriched_with_custom_index_names"} ELSE {})
    \cup (IF c.named_constraints
             /\ \E i \in DOMAIN dm.models :
                   \E k \in DOMAIN dm.models[i].primary_key :
                      dm.models[i].primary_key[k].name # NONE
          THEN {"warning_enriched_with_custom_primary_key_names"} ELSE {})

FieldAt(dm, mi, fi) == dm.models[mi].fields[fi]

Counterpart(dm, mi, fi) ==
    LET r == FindRelatedField(dm, FieldAt(dm, mi, fi)) IN FieldAt(dm, r.mi, r.fi)

ManyToManyToSelf(dm, mi, fi) ==
    /\ FieldAt(dm, mi, fi).is_list
    /\ Counterpart(dm, mi, fi).is_list
    /\ FieldAt(dm, mi, fi).relation_info.to = Counterpart(dm, mi, fi).relation_info.to

RelationFieldsOf(dm) ==
    UNION {{<<mi, fi>> : fi \in {k \in DOMAIN dm.models[mi].fields :
                                     IsRelation(FieldAt(dm, mi, k))}} :
              mi \in DOMAIN dm.models}

\* the descriptors and the relation names of the two fields and of their
\* counterparts are all equal
SameRelation(o, n) ==
    /\ old_data_model.models[o[1]].name = new_data_model.models[n[1]].name
    /\ FieldAt(old_data_model, o[1], o[2]).relation_info
          = FieldAt(new_data_model, n[1], n[2]).relation_info
    /\ Counterpart(old_data_model, o[1], o[2]).relation_info
          = Counterpart(new_data_model, n[1], n[2]).relation_info

\* C4: the step that recovers relation field names records no recovery of the
\* name of an old relation field that is one side of a many-to-many relation of
\* a model to itself, and a new relation field of the same descriptors and
\* relation name as such an old field keeps its name.
C4_SelfRelationExclusion ==
    [][pc = "relation_field_names" =>
        \A o \in RelationFieldsOf(old_data_model) :
            ManyToManyToSelf(old_data_model, o[1], o[2]) =>
               /\ \A i \in DOMAIN locals'.changed_relation_field_names :
                     ~ /\ locals'.changed_relation_field_names[i].model
                             = old_data_model.models[o[1]].name
                       /\ locals'.changed_relation_field_names[i].to
                             = FieldAt(old_data_model, o[1], o[2]).name
               /\ \A n \in RelationFieldsOf(new_data_model) :
                     SameRelation(o, n) =>
                        FieldAt(new_data_model', n[1], n[2]).name
                           = FieldAt(new_data_model, n[1], n[2]).name]_vars

\* after the step: the author's names of a many-to-many relation of M to
\* itself were not recovered although all descriptors and names are equal,
\* while those of another relation were
C4_Witness ==
    /\ pc = "relation_names"
    /\ call = 1
    /\ locals.changed_relation_field_names # <<>>
    /\ \E o \in RelationFieldsOf(old_data_model), n \in RelationFieldsOf(new_data_model) :
          /\ ManyToManyToSelf(old_data_model, o[1], o[2])
          /\ SameRelation(o, n)
          /\ FieldAt(old_data_model, o[1], o[2]).name = "friends"
          /\ FieldAt(new_data_model, n[1], n[2]).name = "M_A"

\* the enum of the tree as it is now that the enum at ei of the tree as enrich
\* received it has become: the one of its database name
EnumNow(ei) ==
    new_data_model.enums[CHOOSE i \in DOMAIN new_data_model.enums :
        FinalDatabaseName(new_data_model.enums[i]) = FinalDatabaseName(input_new.enums[ei])]

\* the old enum that the enum at ei of the tree as enrich received it matches:
\* the first one of its database name, 0 if there is none
MatchingOldEnum(ei) ==
    Position(old_data_model.enums,
             LAMBDA e : FinalDatabaseName(e) = FinalDatabaseName(input_new.enums[ei]))

\* the case of C6: the enum at ei matches an old enum of another name that no
\* new enum has
EnumRenamed(ei) ==
    /\ MatchingOldEnum(ei) # 0
    /\ \A i \in DOMAIN input_new.enums :
          input_new.enums[i].name # old_data_model.enums[MatchingOldEnum(ei)].name

\* the scalar fields, as (model, field) positions in the tree as it is now,
\* that had the type of the enum at ei when enrich received the tree
FieldsTyped(ei) ==
    UNION {{<<mi, fi>> : fi \in {k \in DOMAIN new_data_model.models[mi].fields :
                                    /\ IsScalar(InputModel(mi).fields[k])
                                    /\ InputModel(mi).fields[k].field_type
                                          = TypeEnum(input_new.enums[ei].name)}} :
              mi \in DOMAIN new_data_model.models}

\* what C6 says of the enum at ei, which is to carry the name to
EnumRenamePropagated(ei, to) ==
    LET before == input_new.enums[ei]
        now == EnumNow(ei)
    IN
    /\ now.name = to
    /\ now.database_name = IF before.database_name = NONE THEN before.name
                           ELSE before.database_name
    /\ \A p \in FieldsTyped(ei) :
          FieldAt(new_data_model, p[1], p[2]).field_type = TypeEnum(to)
    /\ Len(now.values) = Len(before.values)
    /\ \A k \in DOMAIN before.values :
          FinalDatabaseName(now.values[k]) = FinalDatabaseName(before.values[k])

\* C6 as stated: a new enum that matches an old enum by database name and is
\* renamed carries the old enum's name, its former name as database name if it
\* had none, every field that was of its type is of the type of the old name,
\* and its values are as many, of the same database names.
C6_EnumRenamePropagation ==
    Returned(1) =>
        \A ei \in DOMAIN input_new.enums :
            EnumRenamed(ei) =>
               EnumRenamePropagated(ei, old_data_model.enums[MatchingOldEnum(ei)].name)

\* the MySQL step renamed the enum that carried this name once more
RenamedAgain(name) ==
    \E i \in DOMAIN locals.changed_mysql_enum_names :
        locals.changed_mysql_enum_names[i].from = name

\* C6: the same, unless the MySQL step (the enum's first field is typed in the
\* old tree by another old enum of equal values) renames the enum once more.
C6_EnumRenamePropagationOffMysql ==
    Returned(1) =>
        \A ei \in DOMAIN input_new.enums :
            EnumRenamed(ei)
            /\ ~RenamedAgain(old_data_model.enums[MatchingOldEnum(ei)].name) =>
               EnumRenamePropagated(ei, old_data_model.enums[MatchingOldEnum(ei)].name)

\* an enum of two values, one of them renamed too, recovered its name, and two
\* fields were of its type
C6_Witness ==
    /\ Returned(1)
    /\ \E ei \in DOMAIN input_new.enums :
          /\ EnumRenamed(ei)
          /\ ~RenamedAgain(old_data_model.enums[MatchingOldEnum(ei)].name)
          /\ EnumNow(ei).name = "A"
          /\ Len(EnumNow(ei).values) = 2
          /\ EnumNow(ei).values[1].name = "u"
          /\ Cardinality(FieldsTyped(ei)) = 2

\* the name x has after the renames recorded in a list of (from, to)
Renamed(changes, x) ==
    IF \E i \in DOMAIN changes : changes[i].from = x
    THEN changes[CHOOSE i \in DOMAIN changes : changes[i].from = x].to
    ELSE x

\* the values of the enum at ei of the tree as enrich received it, as they are
\* now: those of the enum of the name that the recorded renames give it
ValuesNow(ei) ==
    LET name == Renamed(locals.changed_mysql_enum_names,
                        Renamed(locals.changed_enum_names, input_new.enums[ei].name))
    IN new_data_model.enums[CHOOSE i \in DOMAIN new_data_model.enums :
                               new_data_model.enums[i].name = name].values

\* C7: of every enum, every field that was of its type with one of its values
\* as default has that value by its name of now as default: w where enrich
\* renamed the value from v to w, and never v then; the same value otherwise.
C7_EnumValueDefaults ==
    Returned(1) =>
        \A ei \in DOMAIN input_new.enums :
            \A k \in DOMAIN input_new.enums[ei].values :
                \A p \in FieldsTyped(ei) :
                    InputModel(p[1]).fields[p[2]].default_value
                        = DefaultEnum(input_new.enums[ei].values[k].name) =>
                       FieldAt(new_data_model, p[1], p[2]).default_value
                           = DefaultEnum(ValuesNow(ei)[k].name)

\* a value renamed from v to u, and two fields whose default was v
C7_Witness ==
    /\ Returned(1)
    /\ \E ei \in DOMAIN input_new.enums :
          /\ input_new.enums[ei].values[1].name = "v"
          /\ ValuesNow(ei)[1].name = "u"
          /\ Cardinality({p \in FieldsTyped(ei) :
                             /\ InputModel(p[1]).fields[p[2]].default_value = DefaultEnum("v")
                             /\ FieldAt(new_data_model, p[1], p[2]).default_value
                                   = DefaultEnum("u")}) = 2

(***************************************************************************)
(* Properties of the column differ, continued.                             *)
(***************************************************************************)
DefaultFlagSet == "Default" \in column_changes[1].changes

\* C11 as stated: a previous Now default and no next default set the Default
\* flag; a previous Sequence default and no next default do not.
C11_ScenarioC ==
    Diffed =>
        /\ Kinds("Now", "None") => DefaultFlagSet
        /\ Kinds("Sequence", "None") => ~DefaultFlagSet

\* C11: a previous Now default and no next default set the Default flag unless
\* the flavour ignores JSON defaults and one of the columns is a JSON column;
\* a previous Sequence default and no next default never set it.
C11_ScenarioCOffJson ==
    Diffed =>
        /\ Kinds("Now", "None") => (DefaultFlagSet <=> ~JsonRuleApplies)
        /\ Kinds("Sequence", "None") => ~DefaultFlagSet

\* a Now default dropped under a flavour that ignores JSON defaults, from a
\* column that is no JSON column: the flag is set
C11_Witness ==
    /\ Diffed
    /\ Kinds("Now", "None")
    /\ flavour.should_ignore_json_defaults
    /\ ~JsonRuleApplies
    /\ DefaultFlagSet

\* C12 as stated: a previous DbGenerated default is equivalent to the next
\* default if and only if that is a DbGenerated default of the same text
\* ignoring case, under the same constraint name where constraints are named.
C12_DbGenerated ==
    Diffed /\ KindOf(cols.previous.default) = "DbGenerated" =>
        (Equivalent <=> SameTextIgnoringCase /\ ConstraintNamesAgree)

\* C12: the same, except that a previous DbGenerated default is equivalent to
\* a next Sequence default too, and to every next default where the flavour
\* ignores JSON defaults and one of the columns is a JSON column.
C12_DbGeneratedOffSequence ==
    Diffed /\ KindOf(cols.previous.default) = "DbGenerated" =>
        (Equivalent <=> \/ SameTextIgnoringCase /\ ConstraintNamesAgree
                        \/ KindOf(cols.next.default) = "Sequence"
                        \/ JsonRuleApplies)

\* two DbGenerated defaults of one text ignoring case and of two constraint
\* names, with constraints named: found different
C12_Witness ==
    /\ Diffed
    /\ SameTextIgnoringCase
    /\ cols.previous.default[1].text # cols.next.default[1].text
    /\ flavour.named_constraints
    /\ ~ConstraintNamesAgree
    /\ ~JsonRuleApplies
    /\ ~Equivalent

\* C13 as stated: a next Sequence default is equivalent to a previous Value,
\* Now, Sequence or absent default; a previous Sequence default differs from a
\* next Value or Now default; a next DbGenerated default differs from every
\* previous default that is not DbGenerated.
C13_Sequence ==
    Diffed =>
        /\ KindOf(cols.next.default) = "Sequence"
           /\ KindOf(cols.previous.default) \in {"Value", "Now", "Sequence", "None"}
              => Equivalent
        /\ KindOf(cols.previous.default) = "Sequence"
           /\ KindOf(cols.next.default) \in {"Value", "Now"}
              => ~Equivalent
        /\ KindOf(cols.next.default) = "DbGenerated"
           /\ KindOf(cols.previous.default) # "DbGenerated"
              => ~Equivalent

\* C13: the same, the two differences holding unless the flavour ignores JSON
\* defaults and one of the columns is a JSON column.
C13_SequenceOffJson ==
    Diffed =>
        /\ KindOf(cols.next.default) = "Sequence"
           /\ KindOf(cols.previous.default) \in {"Value", "Now", "Sequence", "None"}
              => Equivalent
        /\ KindOf(cols.previous.default) = "Sequence"
           /\ KindOf(cols.next.default) \in {"Value", "Now"}
              => (Equivalent <=> JsonRuleApplies)
        /\ KindOf(cols.next.default) = "DbGenerated"
           /\ KindOf(cols.previous.default) # "DbGenerated"
              => (Equivalent <=> JsonRuleApplies)

\* a Value default replaced by a Sequence default: found equivalent without
\* the JSON rule
C13_Witness ==
    /\ Diffed
    /\ Kinds("Value", "Sequence")
    /\ ~flavour.should_ignore_json_defaults
    /\ Equivalent

\* both defaults are Values, one of them JSON and the other JSON or a string
JsonValues ==
    /\ Kinds("Value", "Value")
    /\ {cols.previous.default[1].type, cols.next.default[1].type}
          \in {{"Json"}, {"Json", "String"}}

\* the two texts are JSON documents of one structure, or one of them is none
SameJsonOrUnparsable ==
    LET p == JsonFromStr(cols.previous.default[1].text)
        n == JsonFromStr(cols.next.default[1].text) IN
    p.ok /\ n.ok => p.value = n.value

\* what C14 says of two Value defaults
ValuesCompared ==
    /\ IF JsonValues THEN SameJsonOrUnparsable ELSE SameValue
    /\ ConstraintNamesAgree

\* C14 as stated: two Value defaults, one of them JSON and the other JSON or a
\* string, are equivalent if and only if their texts parse to the same JSON
\* value or one of them does not parse; two other Value defaults if and only
\* if they are the same value; both subject to the constraint names.
C14_JsonFailOpen ==
    Diffed /\ Kinds("Value", "Value") => (Equivalent <=> ValuesCompared)

\* C14: the same, unless the flavour ignores JSON defaults and one of the
\* columns is a JSON column: then they are equivalent without being compared.
C14_JsonFailOpenOffJson ==
    Diffed /\ Kinds("Value", "Value") =>
        (Equivalent <=> ValuesCompared \/ JsonRuleApplies)

\* a JSON default of a text that does not parse against a string default of a
\* text that does: found equivalent, no JSON rule applying
C14_Witness ==
    /\ Diffed
    /\ JsonValues
    /\ ~JsonFromStr(cols.previous.default[1].text).ok
    /\ JsonFromStr(cols.next.default[1].text).ok
    /\ cols.next.default[1].type = "String"
    /\ ~JsonRuleApplies
    /\ ConstraintNamesAgree
    /\ Equivalent

\* a column pair and a flavour chosen flag by flag
PairOf(S) ==
    [previous |-> Column("c", "Required", "String", <<>>, FALSE),
     next |-> Column(IF "Renaming" \in S THEN "d" ELSE "c",
                     IF "Arity" \in S THEN "Nullable" ELSE "Required",
                     "String",
                     IF "Default" \in S THEN <<DefaultValue("Now", NONE, <<>>, NONE)>> ELSE <<>>,
                     "Sequence" \in S)]

FlavourOf(S) ==
    [should_ignore_json_defaults |-> FALSE, named_constraints |-> FALSE,
     column_type_change |-> IF "TypeChanged" \in S THEN "RiskyCast" ELSE NONE]

\* C15: each of the five flags is set if and only if its own condition holds,
\* the classification of the flavour is returned as it is, and every subset of
\* the five flags is the result for some column pair.
C15_IndependentFlags ==
    /\ Diffed =>
          LET cc == column_changes[1] IN
          /\ column_was_renamed(cc) <=> cols.previous.name # cols.next.name
          /\ arity_changed(cc) <=> cols.previous.arity # cols.next.arity
          /\ type_changed(cc) <=> flavour.column_type_change # NONE
          /\ cc.type_change = flavour.column_type_change
          /\ default_changed(cc) <=> ~defaults_match(cols, flavour)
          /\ autoincrement_changed(cc) <=> cols.previous.autoincrement # cols.next.autoincrement
          /\ cc.changes \subseteq ColumnChange
    /\ \A S \in SUBSET ColumnChange :
          /\ PairOf(S).previous \in FlagColumns
          /\ PairOf(S).next \in FlagColumns
          /\ FlavourOf(S) \in FlagFlavours
          /\ all_changes(PairOf(S), FlavourOf(S)).changes = S

\* a column pair that differs in everything: all five flags are set
C15_Witness ==
    /\ Diffed
    /\ cols.previous.name # cols.next.name
    /\ cols.previous.arity # cols.next.arity
    /\ cols.previous.autoincrement # cols.next.autoincrement
    /\ flavour.column_type_change = "NotCastable"
    /\ column_changes[1].changes = ColumnChange

(***************************************************************************)
(* Properties of enrich on unusual inputs.                                 *)
(***************************************************************************)
\* C16: enrich never panics, whatever the trees and the context.
C16_NeverFails == pc # "panicked"

\* the old model a model of the returned tree is enriched from
OldModelOf(m) == FindModel(old_data_model, m.name)

\* how many elements of a sequence are mapped to a database name
Mapped(seq, db_name) ==
    Cardinality({i \in DOMAIN seq : seq[i].kind # "relation"
                                    /\ FinalDatabaseName(seq[i]) = db_name})

\* every model, scalar field, enum and enum value of the returned tree whose
\* database name several old ones are mapped to has the name of the first
FirstOfDatabaseNameWins ==
    /\ \A i \in DOMAIN new_data_model.models :
          LET m == new_data_model.models[i]
              o == FindModelDbName(old_data_model, FinalDatabaseName(m)) IN
          /\ Cardinality(ModelsOfDatabaseName(old_data_model, FinalDatabaseName(m))) > 1
                => m.name = old_data_model.models[o].name
          /\ OldModelOf(m) # 0 =>
                \A k \in DOMAIN m.fields :
                    LET old_model == old_data_model.models[OldModelOf(m)]
                        of == FindScalarFieldDbName(old_model, FinalDatabaseName(m.fields[k])) IN
                    IsScalar(m.fields[k])
                    /\ Mapped(old_model.fields, FinalDatabaseName(m.fields[k])) > 1
                        => m.fields[k].name = old_model.fields[of].name
    /\ \A i \in DOMAIN new_data_model.enums :
          LET e == new_data_model.enums[i]
              o == FindEnumDbName(old_data_model, FinalDatabaseName(e)) IN
          /\ Cardinality({j \in DOMAIN old_data_model.enums :
                 FinalDatabaseName(old_data_model.enums[j]) = FinalDatabaseName(e)}) > 1
                => e.name = old_data_model.enums[o].name
          /\ FindEnum(old_data_model, e.name) # 0 =>
                \A k \in DOMAIN e.values :
                    LET old_enum == old_data_model.enums[FindEnum(old_data_model, e.name)]
                        ov == FindValueDbName(old_enum, FinalDatabaseName(e.values[k])) IN
                    Cardinality({j \in DOMAIN old_enum.values :
                        FinalDatabaseName(old_enum.values[j])
                            = FinalDatabaseName(e.values[k])}) > 1
                        => e.values[k].name = old_enum.values[ov].name

\* the old relation fields whose descriptors, and whose related fields'
\* descriptors, equal those of the fi-th field of the mi-th model, in the
\* order of the old tree
MatchingOldRelationFields(mi, fi) ==
    SelectSeq(RelationFieldPairs(old_data_model, new_data_model), LAMBDA p :
        /\ p.mi = mi
        /\ p.fi = fi
        /\ RelatedFieldsFound(old_data_model, new_data_model, p)
        /\ KeepsRelationName(old_data_model, new_data_model, p))

\* every relation field of the returned tree that several old relation fields
\* match has the field name and the relation name of the first of them
FirstOfDescriptorWins ==
    \A mi \in DOMAIN new_data_model.models :
        \A fi \in DOMAIN new_data_model.models[mi].fields :
            LET f == new_data_model.models[mi].fields[fi] IN
            IsRelation(f) /\ Len(MatchingOldRelationFields(mi, fi)) > 1 =>
                LET first == OldField(old_data_model, MatchingOldRelationFields(mi, fi)[1]) IN
                /\ f.name = first.name
                /\ f.relation_info.name = first.relation_info.name

\* C17: when enrich has returned, every entity of the new tree that more than
\* one old candidate matches carries what the first of them has, in the
\* phases that match by database name and in those that match by descriptor.
C17_FirstCandidateWins ==
    Returned(1) => FirstOfDatabaseNameWins /\ FirstOfDescriptorWins

(***************************************************************************)
(* Properties of the warnings.                                             *)
(***************************************************************************)
\* the code of the warning of each recovery bucket that has one
CodeOfBucket ==
    [changed_model_names |-> "warning_enriched_with_map_on_model",
     changed_index_names |-> "warning_enriched_with_custom_index_names",
     changed_primary_key_names |-> "warning_enriched_with_custom_primary_key_names",
     changed_scalar_field_names |-> "warning_enriched_with_map_on_field",
     changed_enum_names |-> "warning_enriched_with_map_on_enum",
     changed_enum_values |-> "warning_enriched_with_map_on_enum_value",
     re_introspected_prisma_level_cuids |-> "warning_enriched_with_cuid",
     re_introspected_prisma_level_uuids |-> "warning_enriched_with_uuid",
     re_introspected_updated_at |-> "warning_enriched_with_updated_at",
     re_introspected_model_ignores |-> "warning_enriched_models_with_ignore",
     re_introspected_field_ignores |-> "warning_enriched_fields_with_ignore"]

\* the warnings of one code
WarningsOf(code) == {i \in DOMAIN warnings : warnings[i].code = code}

\* a bucket with a code has one warning of as many entities as it recorded
\* when it is not empty, and none when it is
WarnedOnce(b) ==
    IF locals[b] = <<>>
    THEN WarningsOf(CodeOfBucket[b]) = {}
    ELSE /\ Cardinality(WarningsOf(CodeOfBucket[b])) = 1
         /\ \A i \in WarningsOf(CodeOfBucket[b]) :
                Len(warnings[i].affected) = Len(locals[b])

\* the buckets of phases 1, 2, 3, 6, 7, 8 and 9
WarnedBuckets == DOMAIN CodeOfBucket \cup {"changed_mysql_enum_names"}

\* no warning but those of the buckets with a code
OnlyBucketWarnings ==
    \A i \in DOMAIN warnings : \E b \in DOMAIN CodeOfBucket : warnings[i].code = CodeOfBucket[b]

\* C18: enrich returns one warning for every non-empty bucket of phases 1, 2,
\* 3, 6, 7, 8 and 9, of as many entities as the bucket recorded, and no other.
C18_WarningEmission ==
    pc = "done" =>
        /\ \A b \in DOMAIN CodeOfBucket : WarnedOnce(b)
        /\ Len(warnings) = Cardinality({b \in WarnedBuckets : locals[b] # <<>>})

\* what holds of the warnings: the same but for the bucket of phase 7
WarningEmissionButMysql ==
    pc = "done" =>
        /\ \A b \in DOMAIN CodeOfBucket : WarnedOnce(b)
        /\ OnlyBucketWarnings
        /\ Len(warnings) = Cardinality({b \in DOMAIN CodeOfBucket : locals[b] # <<>>})

(***************************************************************************)
(* Properties of the application-level semantics carried forward.          *)
(***************************************************************************)
\* the scalar fields of the tree enrich was called with that an old scalar
\* field of the same model name and field name matches: [mi, fi, ofi]
MatchedByName ==
    UNION {
        LET model == input_new.models[mi]
            oi == FindModel(old_data_model, model.name) IN
        IF oi = 0 THEN {}
        ELSE {[mi |-> mi, fi |-> fi,
               ofi |-> FindScalarField(old_data_model.models[oi], model.fields[fi].name)] :
                 fi \in {k \in DOMAIN model.fields :
                           /\ IsScalar(model.fields[k])
                           /\ FindScalarField(old_data_model.models[oi],
                                              model.fields[k].name) # 0}}
        : mi \in DOMAIN input_new.models}

FieldBefore(t) == input_new.models[t.mi].fields[t.fi]
FieldAfter(t) == new_data_model.models[t.mi].fields[t.fi]
OldFieldOf(t) ==
    old_data_model.models[FindModel(old_data_model, input_new.models[t.mi].name)].fields[t.ofi]

\* a cuid or uuid default is set only on a string field without default
GeneratorOnlyOnBareString(t) ==
    FieldAfter(t).default_value # FieldBefore(t).default_value =>
        /\ FieldBefore(t).default_value = NoDefault
        /\ FieldBefore(t).field_type = TypeString
        /\ FieldAfter(t).default_value \in {DefaultCuid, DefaultUuid}
        /\ FieldAfter(t).default_value = OldFieldOf(t).default_value

\* C19: for a new scalar field matched by model name and field name, the old
\* cuid or uuid default is set only when the new field has no default and is a
\* string; the auto-update flag is set only when the new field has no default
\* and is a timestamp whose old field had the flag; a new field with a default
\* of its own keeps its default and its flag.
C19_PrismaLevelCarryForward ==
    Returned(1) =>
        \A t \in MatchedByName :
            /\ GeneratorOnlyOnBareString(t)
            /\ FieldAfter(t).is_updated_at # FieldBefore(t).is_updated_at =>
                  /\ FieldBefore(t).default_value = NoDefault
                  /\ FieldBefore(t).field_type = TypeDateTime
                  /\ OldFieldOf(t).is_updated_at
                  /\ FieldAfter(t).is_updated_at
            /\ FieldBefore(t).default_value # NoDefault =>
                  /\ FieldAfter(t).default_value = FieldBefore(t).default_value
                  /\ FieldAfter(t).is_updated_at = FieldBefore(t).is_updated_at

\* what holds: the same, the auto-update flag being set whether or not the
\* new field has a default
PrismaLevelCarryForwardOfFlag ==
    Returned(1) =>
        \A t \in MatchedByName :
            /\ GeneratorOnlyOnBareString(t)
            /\ FieldAfter(t).is_updated_at # FieldBefore(t).is_updated_at =>
                  /\ FieldBefore(t).field_type = TypeDateTime
                  /\ OldFieldOf(t).is_updated_at
                  /\ FieldAfter(t).is_updated_at
            /\ FieldBefore(t).default_value # NoDefault =>
                  FieldAfter(t).default_value = FieldBefore(t).default_value

(***************************************************************************)
(* Properties of the documentation carried forward.                        *)
(***************************************************************************)
\* an entity carries the documentation of its old counterpart when that has
\* one, and keeps its own when it has none
Carries(after, before, old) ==
    after.documentation = IF old.documentation # NONE THEN old.documentation
                          ELSE before.documentation

\* the fields of a matched model and the values of a matched enum carry the
\* documentation of the old ones of their names
FieldsCarry(mi, oi) ==
    \A fi \in DOMAIN new_data_model.models[mi].fields :
        LET ofi == FindField(old_data_model.models[oi],
                             new_data_model.models[mi].fields[fi].name) IN
        ofi # 0 => Carries(new_data_model.models[mi].fields[fi],
                           input_new.models[mi].fields[fi],
                           old_data_model.models[oi].fields[ofi])

ValuesCarry(ei, oi) ==
    \A vi \in DOMAIN new_data_model.enums[ei].values :
        LET ovi == FindValue(old_data_model.enums[oi],
                             new_data_model.enums[ei].values[vi].name) IN
        ovi # 0 => Carries(new_data_model.enums[ei].values[vi],
                           input_new.enums[ei].values[vi],
                           old_data_model.enums[oi].values[ovi])

\* C20: when enrich has returned, every model of the name of an old model,
\* with fields or without, every field of it of the name of an old field, every
\* enum of the name of an old enum, with values or without, and every value of
\* it of the name of an old value carries the old documentation if there is
\* one, and its own if there is none.
C20_DocumentationCarryForward ==
    Returned(1) =>
        /\ \A mi \in DOMAIN new_data_model.models :
              LET oi == FindModel(old_data_model, new_data_model.models[mi].name) IN
              oi # 0 =>
                  /\ Carries(new_data_model.models[mi], input_new.models[mi],
                             old_data_model.models[oi])
                  /\ FieldsCarry(mi, oi)
        /\ \A ei \in DOMAIN new_data_model.enums :
              LET oi == FindEnum(old_data_model, new_data_model.enums[ei].name) IN
              oi # 0 =>
                  /\ Carries(new_data_model.enums[ei], input_new.enums[ei],
                             old_data_model.enums[oi])
                  /\ ValuesCarry(ei, oi)

\* what holds: the same of the models that have fields and of the enums that
\* have values
DocumentationCarryForwardOfNonEmpty ==
    Returned(1) =>
        /\ \A mi \in DOMAIN new_data_model.models :
              LET oi == FindModel(old_data_model, new_data_model.models[mi].name) IN
              oi # 0 =>
                  /\ new_data_model.models[mi].fields # <<>>
                        => Carries(new_data_model.models[mi], input_new.models[mi],
                                   old_data_model.models[oi])
                  /\ FieldsCarry(mi, oi)
        /\ \A ei \in DOMAIN new_data_model.enums :
              LET oi == FindEnum(old_data_model, new_data_model.enums[ei].name) IN
              oi # 0 =>
                  /\ new_data_model.enums[ei].values # <<>>
                        => Carries(new_data_model.enums[ei], input_new.enums[ei],
                                   old_data_model.enums[oi])
                  /\ ValuesCarry(ei, oi)

(***************************************************************************)
(* Properties of the constraint names.                                     *)
(***************************************************************************)
\* the primary keys of the i-th model: as enrich was called, as it returned,
\* and the one of the old model of its name
KeyBefore(i) == input_new.models[i].primary_key[1]
KeyAfter(i) == new_data_model.models[i].primary_key[1]
OldKey(i) ==
    old_data_model.models[FindModel(old_data_model, new_data_model.models[i].name)].primary_key[1]

\* the i-th model has a key and so has the old model of its name
Keyed(i) ==
    /\ new_data_model.models[i].primary_key # <<>>
    /\ FindModel(old_data_model, new_data_model.models[i].name) # 0
    /\ old_data_model.models[FindModel(old_data_model,
                                       new_data_model.models[i].name)].primary_key # <<>>

DatabaseNameAllows(i) ==
    OldKey(i).db_name = KeyBefore(i).db_name \/ KeyBefore(i).db_name = NONE

\* C21 as stated: with named constraints, the key of a matched model gets the
\* old key's name when both are over the same set of fields, in terms of the
\* recovered field names, the database name allows it and the old key has a
\* name; otherwise it keeps its own.
C21_PrimaryKeyNameRecovery ==
    Returned(1) /\ ctx.named_constraints =>
        \A i \in DOMAIN new_data_model.models :
            Keyed(i) =>
                KeyAfter(i).name =
                    IF /\ Range(OldKey(i).fields) = Range(KeyAfter(i).fields)
                       /\ DatabaseNameAllows(i)
                       /\ OldKey(i).name # NONE
                    THEN OldKey(i).name
                    ELSE KeyBefore(i).name

\* what holds: the same, the fields being compared as lists and before the
\* field names are recovered: the old key's against the new key's as
\* introspected
PrimaryKeyNameRecoveryBeforeFields ==
    Returned(1) /\ ctx.named_constraints =>
        \A i \in DOMAIN new_data_model.models :
            Keyed(i) =>
                KeyAfter(i).name =
                    IF /\ OldKey(i).fields = KeyBefore(i).fields
                       /\ DatabaseNameAllows(i)
                       /\ OldKey(i).name # NONE
                    THEN OldKey(i).name
                    ELSE KeyBefore(i).name

\* a key without database name in the new tree takes the name of an old key
\* of another database name
PrimaryKeyNameRecovered ==
    /\ Returned(1)
    /\ ctx.named_constraints
    /\ Keyed(1)
    /\ KeyBefore(1).db_name = NONE
    /\ OldKey(1).db_name = "K"
    /\ KeyBefore(1).name = NONE
    /\ KeyAfter(1).name = "pk"

\* the old index of the database name of the k-th index of the i-th model, 0
\* for none
OldIndexOf(i, k) ==
    LET oi == FindModel(old_data_model, new_data_model.models[i].name) IN
    IF oi = 0 THEN 0
    ELSE Position(old_data_model.models[oi].indices, LAMBDA o :
             o.db_name = input_new.models[i].indices[k].db_name /\ o.name # NONE)

NamesOfConstraints(dm) ==
    [i \in DOMAIN dm.models |->
        [indices |-> [k \in DOMAIN dm.models[i].indices |-> dm.models[i].indices[k].name],
         primary_key |-> [k \in DOMAIN dm.models[i].primary_key |->
                             dm.models[i].primary_key[k].name]]]

\* C22: without named constraints no index and no primary key changes its
\* name and neither is warned about; with them an index of a matched model
\* gets the name of the old index of its database name that has a name, and
\* keeps its own when there is none.
C22_IndexNameRecoveryGated ==
    Returned(1) =>
        IF ctx.named_constraints
        THEN \A i \in DOMAIN new_data_model.models :
                \A k \in DOMAIN new_data_model.models[i].indices :
                    new_data_model.models[i].indices[k].name =
                        IF OldIndexOf(i, k) # 0
                        THEN old_data_model.models[
                                 FindModel(old_data_model, new_data_model.models[i].name)
                             ].indices[OldIndexOf(i, k)].name
                        ELSE input_new.models[i].indices[k].name
        ELSE /\ NamesOfConstraints(new_data_model) = NamesOfConstraints(input_new)
             /\ WarningsOf("warning_enriched_with_custom_index_names") = {}
             /\ WarningsOf("warning_enriched_with_custom_primary_key_names") = {}

\* with named constraints the second index takes an old name and the first
\* keeps none
C22_Witness ==
    /\ Returned(1)
    /\ ctx.named_constraints
    /\ Len(new_data_model.models[1].indices) = 2
    /\ new_data_model.models[1].indices[1].name = "by_b"
    /\ new_data_model.models[1].indices[2].name = "other"
    /\ input_new.models[1].indices[2].name = NONE

\* without named constraints an old index and an old key have names and the
\* new ones get none
C22_WitnessGated ==
    /\ Returned(1)
    /\ ~ctx.named_constraints
    /\ OldIndexOf(1, 1) # 0
    /\ Keyed(1) /\ OldKey(1).name # NONE /\ OldKey(1).fields = KeyBefore(1).fields
    /\ new_data_model.models[1].indices[1].name = NONE
    /\ KeyAfter(1).name = NONE

(***************************************************************************)
(* Properties of the relations.                                            *)
(***************************************************************************)
\* the names enrich renamed models from
RenamedFrom == {locals.changed_model_names[i].from : i \in DOMAIN locals.changed_model_names}

\* C23: the step that renames models leaves no relation field with a target
\* it renamed a model from, gives every relation field that had such a target
\* the name the model was renamed to, and leaves the other targets alone; no
\* relation field has such a target when enrich returns.
C23_ModelRenameReachesTargets ==
    /\ [][pc = "model_names" /\ pc' = "constraint_names" =>
            \A n \in RelationFieldsOf(new_data_model) :
                LET before == FieldAt(new_data_model, n[1], n[2]).relation_info.to
                    after == FieldAt(new_data_model', n[1], n[2]).relation_info.to
                    cs == locals'.changed_model_names IN
                /\ \A i \in DOMAIN cs :
                      /\ after # cs[i].from
                      /\ before = cs[i].from => after = cs[i].to
                /\ (\A i \in DOMAIN cs : before # cs[i].from) => after = before]_vars
    /\ [](Returned(1) =>
            \A n \in RelationFieldsOf(new_data_model) :
                FieldAt(new_data_model, n[1], n[2]).relation_info.to \notin RenamedFrom)

\* a model was renamed that one relation field of the tree pointed to and
\* another did not
C23_Witness ==
    /\ Returned(1)
    /\ RenamedFrom # {}
    /\ \E n \in RelationFieldsOf(input_new) :
          FieldAt(input_new, n[1], n[2]).relation_info.to \in RenamedFrom
    /\ \E n \in RelationFieldsOf(input_new) :
          FieldAt(input_new, n[1], n[2]).relation_info.to \notin RenamedFrom

\* the pairs of the fi-th field of the mi-th model of the new tree and a
\* relation field of the old model of its name
PairsOf(mi, fi) ==
    {p \in Range(RelationFieldPairs(old_data_model, new_data_model)) :
        p.mi = mi /\ p.fi = fi}

\* both sides of the pair have equal descriptors, and the relation names are
\* equal where the old relation is many-to-many
TwoSidedMatch(p) ==
    /\ RelatedFieldsFound(old_data_model, new_data_model, p)
    /\ RelationInfoPartialEq(old_data_model, new_data_model, p)
    /\ IsManyToMany(old_data_model, p) =>
          OldField(old_data_model, p).relation_info.name
              = NewField(new_data_model, p).relation_info.name

\* C24: the step that recovers relation field names changes the name of a new
\* relation field only to the name of an old relation field of the old model
\* of the same name that matches it on both sides; a field with no such old
\* field keeps its name.
C24_TwoSidedRecovery ==
    [][pc = "relation_field_names" =>
        \A n \in RelationFieldsOf(new_data_model) :
            FieldAt(new_data_model', n[1], n[2]).name # FieldAt(new_data_model, n[1], n[2]).name
            => \E p \in PairsOf(n[1], n[2]) :
                  /\ TwoSidedMatch(p)
                  /\ FieldAt(new_data_model', n[1], n[2]).name
                        = OldField(old_data_model, p).name]_vars

\* the name of a relation field changed between the call and the state
Recovered(n) == FieldAt(new_data_model, n[1], n[2]).name # FieldAt(input_new, n[1], n[2]).name

\* C30: the step that recovers relation field names leaves every field it
\* recorded a recovery for with the name recorded for it, also when that name
\* is the name another relation field of the model had before the step.
C30_RenamesReachTheirFields ==
    [][pc = "relation_field_names" =>
        \A i \in DOMAIN locals'.changed_relation_field_names :
            LET c == locals'.changed_relation_field_names[i] IN
            \A n \in RelationFieldsOf(new_data_model) :
                (/\ new_data_model.models[n[1]].name = c.model
                 /\ FieldAt(new_data_model, n[1], n[2]).name = c.field)
                => FieldAt(new_data_model', n[1], n[2]).name = c.to]_vars

\* the pair matches on both sides and the old relation is not many-to-many
OneToManyMatch(p) ==
    /\ RelatedFieldsFound(old_data_model, new_data_model, p)
    /\ RelationInfoPartialEq(old_data_model, new_data_model, p)
    /\ ~IsManyToMany(old_data_model, p)

ManyToManyMatch(p) ==
    /\ RelatedFieldsFound(old_data_model, new_data_model, p)
    /\ RelationInfoPartialEq(old_data_model, new_data_model, p)
    /\ IsManyToMany(old_data_model, p)

\* C25: the step that recovers relation names leaves a new relation field and
\* its counterpart with the relation name of every old relation field of the
\* old model of the same name that matches on both sides in a relation that is
\* not many-to-many; a field whose matching old fields are all many-to-many
\* keeps its relation name.
C25_RelationNameRecovery ==
    [][(pc = "relation_names" /\ pc' # "panicked") =>
        /\ \A p \in Range(RelationFieldPairs(old_data_model, new_data_model)) :
              OneToManyMatch(p) =>
                 LET r == FindRelatedField(new_data_model, NewField(new_data_model, p))
                     old_name == OldField(old_data_model, p).relation_info.name IN
                 /\ FieldAt(new_data_model', p.mi, p.fi).relation_info.name = old_name
                 /\ FieldAt(new_data_model', r.mi, r.fi).relation_info.name = old_name
        /\ \A n \in RelationFieldsOf(new_data_model) :
              (/\ \E p \in PairsOf(n[1], n[2]) : ManyToManyMatch(p)
               /\ \A p \in PairsOf(n[1], n[2]) : ~OneToManyMatch(p))
              => FieldAt(new_data_model', n[1], n[2]).relation_info.name
                    = FieldAt(new_data_model, n[1], n[2]).relation_info.name]_vars

(***************************************************************************)
(* Properties of the enums of MySQL.                                       *)
(***************************************************************************)
\* the enum of the old tree that types the old field of the model name and the
\* field name of the first field of the i-th new enum; 0 when there is none
OldEnumOfFirstField(i) ==
    LET fs == FindEnumFields(new_data_model, new_data_model.enums[i].name) IN
    IF fs = <<>> THEN 0
    ELSE LET oi == FindModel(old_data_model, fs[1].model) IN
         IF oi = 0 THEN 0
         ELSE LET ofi == FindField(old_data_model.models[oi], fs[1].field) IN
              IF ofi = 0 THEN 0
              ELSE LET f == old_data_model.models[oi].fields[ofi] IN
                   IF f.field_type.tag # "Enum" THEN 0
                   ELSE FindEnum(old_data_model, f.field_type.name)

\* C26: the step of the MySQL enum names renames nothing on another SQL family;
\* on MySQL it renames the i-th new enum exactly when the old enum of its first
\* field has its values and another name that no earlier enum of the walk has
\* taken, and then to that name, so that no two enums take one old name.
C26_MysqlEnumIdentity ==
    [][(pc = "mysql_enum_names" /\ pc' # "panicked") =>
        LET before == new_data_model.enums
            after == new_data_model'.enums
            Adopted(i) == after[i].name # before[i].name IN
        /\ Len(after) = Len(before)
        /\ ~ctx.mysql => new_data_model' = new_data_model
        /\ ctx.mysql =>
              \A i \in DOMAIN before :
                  LET oe == OldEnumOfFirstField(i) IN
                  /\ Adopted(i) <=>
                        /\ oe # 0
                        /\ old_data_model.enums[oe].values = before[i].values
                        /\ old_data_model.enums[oe].name # before[i].name
                        /\ ~\E j \in 1..(i - 1) :
                               /\ Adopted(j)
                               /\ after[j].name = old_data_model.enums[oe].name
                  /\ Adopted(i) => after[i].name = old_data_model.enums[oe].name
        /\ \A i, j \in DOMAIN before :
              (Adopted(i) /\ Adopted(j) /\ after[i].name = after[j].name) => i = j]_vars

(***************************************************************************)
(* Properties of the tree as a whole.                                      *)
(***************************************************************************)
NameList(s) == [i \in DOMAIN s |-> s[i].name]

DatabaseNameList(s) == [i \in DOMAIN s |-> FinalDatabaseName(s[i])]

DistinctNames(dm) ==
    /\ NoDuplicates(NameList(dm.models))
    /\ NoDuplicates(NameList(dm.enums))
    /\ \A mi \in DOMAIN dm.models : NoDuplicates(NameList(dm.models[mi].fields))

DistinctDatabaseNames(dm) ==
    /\ NoDuplicates(DatabaseNameList(dm.models))
    /\ NoDuplicates(DatabaseNameList(dm.enums))
    /\ \A mi \in DOMAIN dm.models :
          NoDuplicates(DatabaseNameList(dm.models[mi].fields))

\* C28: when the names and the database names of the new tree, and the
\* database names of the old tree, are pairwise distinct among the models,
\* among the enums and among the fields of each model as enrich is called,
\* the names are pairwise distinct in the tree it returns.
C28_NoDuplicateNames ==
    (/\ Returned(1)
     /\ DistinctNames(input_new)
     /\ DistinctDatabaseNames(input_new)
     /\ DistinctDatabaseNames(old_data_model))
    => DistinctNames(new_data_model)

ScalarFieldNames(model) == {f.name : f \in {g \in Range(model.fields) : IsScalar(g)}}

\* every name the tree refers to is the name of something in the tree
ReferencesResolve(dm) ==
    \A mi \in DOMAIN dm.models :
        LET model == dm.models[mi] IN
        /\ \A k \in DOMAIN model.primary_key :
              Range(model.primary_key[k].fields) \subseteq ScalarFieldNames(model)
        /\ \A k \in DOMAIN model.indices :
              Range(model.indices[k].fields) \subseteq ScalarFieldNames(model)
        /\ \A fi \in DOMAIN model.fields :
              LET f == model.fields[fi] IN
              /\ IsRelation(f) =>
                    /\ FindModel(dm, f.relation_info.to) # 0
                    /\ Range(f.relation_info.fields) \subseteq ScalarFieldNames(model)
                    /\ Range(f.relation_info.references) \subseteq
                          ScalarFieldNames(dm.models[FindModel(dm, f.relation_info.to)])
              /\ (IsScalar(f) /\ f.field_type.tag = "Enum") =>
                    /\ FindEnum(dm, f.field_type.name) # 0
                    /\ f.default_value.kind = "Single(Enum)" =>
                          f.default_value.value \in
                              {v.name : v \in Range(dm.enums[FindEnum(dm, f.field_type.name)].values)}

\* C29: when every name the new tree refers to resolves as enrich is called,
\* every name the returned tree refers to resolves.
C29_ReferentialIntegrity ==
    (Returned(1) /\ ReferencesResolve(input_new)) => ReferencesResolve(new_data_model)

\* the model of the returned tree that the mi-th model of the tree enrich was
\* called with has become: the one of its database name
ReturnedModelOf(mi) ==
    CHOOSE k \in DOMAIN new_data_model.models :
        FinalDatabaseName(new_data_model.models[k])
            = FinalDatabaseName(input_new.models[mi])

\* C27: in the returned tree every model of the name of an ignored old model
\* is ignored, every scalar field of the name of an ignored old scalar field
\* of that model is ignored, and every model and field that was ignored as
\* enrich was called is ignored.
C27_IgnoresAreSticky ==
    Returned(1) =>
        /\ \A mi \in DOMAIN new_data_model.models :
              LET model == new_data_model.models[mi]
                  oi == FindModel(old_data_model, model.name) IN
              oi # 0 =>
                 /\ old_data_model.models[oi].is_ignored => model.is_ignored
                 /\ \A fi \in DOMAIN model.fields :
                       LET ofi == FindScalarField(old_data_model.models[oi],
                                                  model.fields[fi].name) IN
                       (/\ IsScalar(model.fields[fi])
                        /\ ofi # 0
                        /\ old_data_model.models[oi].fields[ofi].is_ignored)
                       => model.fields[fi].is_ignored
        /\ \A mi \in DOMAIN input_new.models :
              /\ input_new.models[mi].is_ignored
                    => new_data_model.models[ReturnedModelOf(mi)].is_ignored
              /\ \A fi \in DOMAIN input_new.models[mi].fields :
                    input_new.models[mi].fields[fi].is_ignored
                    => new_data_model.models[ReturnedModelOf(mi)].fields[fi].is_ignored

\* the tree came with an ignored model and an ignored field that the old tree
\* does not ignore, and returns with a model and a field ignored that came
\* unignored, the models in another order than they came in
C27_Witness ==
    /\ Returned(1)
    /\ \E mi \in DOMAIN input_new.models :
          /\ input_new.models[mi].is_ignored
          /\ \E oi \in DOMAIN old_data_model.models :
                /\ old_data_model.models[oi].name
                      = new_data_model.models[ReturnedModelOf(mi)].name
                /\ ~old_data_model.models[oi].is_ignored
    /\ \E mi \in DOMAIN input_new.models :
          /\ ~input_new.models[mi].is_ignored
          /\ new_data_model.models[ReturnedModelOf(mi)].is_ignored
          /\ ReturnedModelOf(mi) # mi
          /\ \E fi \in DOMAIN input_new.models[mi].fields :
                /\ ~input_new.models[mi].fields[fi].is_ignored
                /\ new_data_model.models[ReturnedModelOf(mi)].fields[fi].is_ignored
                /\ new_data_model.models[ReturnedModelOf(mi)].fields[fi].name
                      # input_new.models[mi].fields[fi].name
    /\ \E mi \in DOMAIN input_new.models :
          \E fi \in DOMAIN input_new.models[mi].fields :
              /\ input_new.models[mi].fields[fi].is_ignored
              /\ \E oi \in DOMAIN old_data_model.models :
                    \E ofi \in DOMAIN old_data_model.models[oi].fields :
                        /\ old_data_model.models[oi].name
                              = new_data_model.models[ReturnedModelOf(mi)].name
                        /\ old_data_model.models[oi].fields[ofi].name
                              = new_data_model.models[ReturnedModelOf(mi)].fields[fi].name
                        /\ ~old_data_model.models[oi].fields[ofi].is_ignored

====
